---- MODULE Spec2Model ----
(***************************************************************************)
(* A model of the snapm snapshot manager's top-level definitions           *)
(* (snapm/_snapm.py: Selection, SnapshotSet, Snapshot) and of the          *)
(* procedural command interface (snapm/command.py).                        *)
(*                                                                         *)
(* The module holds several specifications over one set of variables:      *)
(*   SpecSel  - Selection objects and their validation                     *)
(*   SpecSet  - a SnapshotSet, its members and the aggregate properties    *)
(*   SpecSnap - one Snapshot, its provider and its cached backend state    *)
(*   SpecCreate - create_snapset with boot and rollback entries            *)
(*   SpecMgr  - entry requests, delete and roll back of discovered sets    *)
(*   SpecObj  - construction of SnapshotSet objects and their lookups      *)
(*   SpecIdent - the identity of a Snapshot instance over its lifetime     *)
(*   SpecMain - main: the debug option, the dispatch and the exit status   *)
(*   SpecTime - creation and discovery of sets while the clock advances    *)
(*   SpecBoot - boot and rollback records, and their rediscovery           *)
(*   SpecFind - find_snapshot_sets over the discovered sets                *)
(*   SpecArgs - Selections built from command line arguments               *)
(*   SpecCmd  - the snapshot commands and the autoactivate commands        *)
(*   SpecDebug - the package debug mask                                    *)
(*   SpecKeys - the boot integration on sets whose names end in digits     *)
(* Each specification pins the variables of the others.                    *)
(***************************************************************************)
EXTENDS Integers, Sequences, FiniteSets, TLC

VARIABLES
    sel,        \* the Selection object under test: attribute -> value or None
    selResult,  \* outcome of the last call made on sel
    snapshots,  \* SnapshotSet._snapshots: the member Snapshot objects, in order
    backend,    \* the provider's state of each member (by position)
    cache,      \* each member's cached backend state, None when invalidated
    lastOp,     \* the last operation on the set or a member, with its call log
    snapsets,   \* the snapshot sets the Manager finds (with all their members)
    bootStore,  \* the boot store: the boot and rollback entries, by set uuid
    mgrOp,      \* the last command run against the Manager, with its call log
    sset,       \* the SnapshotSet object constructed last, None before the first
    twin,       \* a second Snapshot instance, None when there is none
    objOp,      \* the last constructor or lookup call, with its result
    debugMask,  \* the package's debug mask (__DEBUG_MASK)
    mainOp,     \* the last run of main, with its exit status
    clock,      \* the system time, in seconds
    catalog,    \* the snapshots the backends hold, as discovery reports them
    held,       \* the SnapshotSet objects the Manager holds
    timeOp      \* the last Manager call on the catalog, with its times

selVars == <<sel, selResult>>

setVars == <<snapshots, backend, cache, lastOp>>

mgrVars == <<snapsets, bootStore, mgrOp>>

objVars == <<sset, twin, objOp>>

\* The variables of the specifications that follow SpecMgr.
mainVars == <<debugMask, mainOp>>

timeVars == <<clock, catalog, held, timeOp>>

otherVars == <<objVars, mainVars, timeVars>>

vars == <<sel, selResult, snapshots, backend, cache, lastOp,
          snapsets, bootStore, mgrOp, sset, twin, objOp, debugMask, mainOp,
          clock, catalog, held, timeOp>>

\* Python's None, and a value that is not None.  An optional value is a
\* sequence of length at most one, so that None compares with every value.
None == <<>>

Some(v) == <<v>>

\* No operation has been recorded yet.
NoCall == [op |-> "none"]

\* ---------------------------------------------------------------------------
\* Generic sequence helpers (Python list semantics)
\* ---------------------------------------------------------------------------

\* Python's `x in list`.
InSeq(x, s) == \E i \in 1..Len(s) : s[i] = x

\* ---------------------------------------------------------------------------
\* Exception classes (snapm/_snapm.py 120-166 and the Python builtins used)
\* ---------------------------------------------------------------------------

SnapmErrorKinds ==
    { "SnapmError", "SnapmCalloutError", "SnapmNoSpaceError",
      "SnapmNoProviderError", "SnapmExistsError", "SnapmPathError",
      "SnapmNotFoundError", "SnapmInvalidIdentifierError" }

\* The base class of an exception class: every Snapm error derives from
\* SnapmError, which derives from Exception, as the builtin errors do;
\* KeyboardInterrupt and SystemExit derive from BaseException directly.
PythonBase(kind) ==
    CASE kind = "SnapmError" -> "Exception"
      [] kind \in SnapmErrorKinds \ {"SnapmError"} -> "SnapmError"
      [] kind \in {"ValueError", "TypeError", "OSError", "KeyError",
                   "NotImplementedError"} -> "Exception"
      [] kind \in {"Exception", "KeyboardInterrupt", "SystemExit"} -> "BaseException"
      [] OTHER -> "object"

\* issubclass(kind, cls): what `except cls` catches.
RECURSIVE issubclass(_, _)
issubclass(kind, cls) ==
    \/ kind = cls
    \/ kind /= "object" /\ issubclass(PythonBase(kind), cls)

\* ---------------------------------------------------------------------------
\* Selection (snapm/_snapm.py 174-388)
\* ---------------------------------------------------------------------------

snapshot_set_attrs == <<"name", "uuid", "timestamp", "nr_snapshots", "mount_points">>

snapshot_attrs == <<"origin", "mount_point", "snapshot_name", "snapshot_uuid">>

all_attrs == snapshot_set_attrs \o snapshot_attrs

AttrNames == { all_attrs[i] : i \in 1..Len(all_attrs) }

\* The non-None values an attribute of a Selection takes in this model.
AttrValues(attr) ==
    CASE attr = "name" -> {Some("a"), Some("b")}
      [] attr = "uuid" -> {Some("U")}
      [] attr = "timestamp" -> {Some("T")}
      [] attr = "nr_snapshots" -> {Some("N")}
      [] attr = "mount_points" -> {Some(<<"/x">>)}
      [] attr = "origin" -> {Some("/dev/vg/lv")}
      [] attr = "mount_point" -> {Some("/x")}
      [] attr = "snapshot_name" -> {Some("sn")}
      [] attr = "snapshot_uuid" -> {Some("SU")}

\* Selection.__init__: every attribute is assigned, None by default.
Selections ==
    [ name : AttrValues("name") \cup {None},
      uuid : AttrValues("uuid") \cup {None},
      timestamp : AttrValues("timestamp") \cup {None},
      nr_snapshots : AttrValues("nr_snapshots") \cup {None},
      mount_points : AttrValues("mount_points") \cup {None},
      origin : AttrValues("origin") \cup {None},
      mount_point : AttrValues("mount_point") \cup {None},
      snapshot_name : AttrValues("snapshot_name") \cup {None},
      snapshot_uuid : AttrValues("snapshot_uuid") \cup {None} ]

\* Selection.__attr_has_value
attr_has_value(s, attr) == attr \in DOMAIN s /\ s[attr] /= None

\* A variant of valid_attrs that allows the snapshot-set attributes under the
\* snapshot flag and the snapshot attributes under the snapshot_set flag.
valid_attrs_swapped(snapshot_set, snapshot) ==
    (IF snapshot THEN snapshot_set_attrs ELSE <<>>)
        \o (IF snapshot_set THEN snapshot_attrs ELSE <<>>)

\* The valid_attrs list check_valid_selection builds from its two flags.
valid_attrs(snapshot_set, snapshot) ==
    (IF snapshot_set THEN snapshot_set_attrs ELSE <<>>)
        \o (IF snapshot THEN snapshot_attrs ELSE <<>>)

\* Selection.check_valid_selection: the list of offending attributes, in
\* all_attrs order; the call raises ValueError when it is not empty.
invalid_attrs(s, snapshot_set, snapshot) ==
    SelectSeq(all_attrs,
              LAMBDA attr : attr_has_value(s, attr)
                            /\ ~InSeq(attr, valid_attrs(snapshot_set, snapshot)))

\* A variant of check_valid_selection that raises the Snapm identifier error.
check_valid_selection_identifier_error(s, snapshot_set, snapshot) ==
    IF invalid_attrs(s, snapshot_set, snapshot) /= <<>>
    THEN [raised |-> "SnapmInvalidIdentifierError"]
    ELSE [raised |-> "no"]

check_valid_selection(s, snapshot_set, snapshot) ==
    IF invalid_attrs(s, snapshot_set, snapshot) /= <<>>
    THEN [raised |-> "ValueError"]
    ELSE [raised |-> "no"]

\* ---------------------------------------------------------------------------
\* Provider plugin: the backend state of one snapshot and the effect of the
\* mutating calls a Snapshot delegates to it
\* ---------------------------------------------------------------------------

\* SnapStatus (snapm/_snapm.py 391-398)
SnapStatus == {"ACTIVE", "INACTIVE", "INVALID"}

\* What a provider call can end with: "ok", or the error it raises.  A failed
\* call of an external tool is a SnapmCalloutError.
ProviderOutcomes == {"ok", "SnapmCalloutError"}

\* The backend after a successful provider call `fn` on a snapshot.
provider_effect(b, fn, arg) ==
    CASE fn = "activate_snapshot" ->
            [b EXCEPT !.status = IF @ = "INVALID" THEN @ ELSE "ACTIVE"]
      [] fn = "deactivate_snapshot" ->
            [b EXCEPT !.status = IF @ = "INVALID" THEN @ ELSE "INACTIVE"]
      [] fn = "set_autoactivate" -> [b EXCEPT !.autoactivate = arg]
      [] fn = "delete_snapshot" -> [b EXCEPT !.present = FALSE]
      [] fn = "rename_snapshot" -> [b EXCEPT !.name = arg]
      [] fn = "rollback_snapshot" -> [b EXCEPT !.rollback = TRUE]

\* A world is the state the Snapshot methods act on: the members' backend
\* and cache, the error being raised ("no" when none) and the log of the
\* provider and invalidate_cache calls made.
World(b, c) == [backend |-> b, cache |-> c, raised |-> "no", events |-> <<>>]

\* self._provider.<fn>(self.name, ...) on member i, ending with `oc`.
provider_call(w, i, fn, arg, oc) ==
    LET ev == [fn |-> fn, member |-> i, arg |-> arg, out |-> oc] IN
    IF oc = "ok"
    THEN [w EXCEPT !.backend[i] = provider_effect(@, fn, arg),
                   !.events = Append(@, ev)]
    ELSE [w EXCEPT !.raised = oc, !.events = Append(@, ev)]

\* Snapshot.invalidate_cache, as the plugins' snapshots implement it: the
\* cached backend state of the snapshot is dropped.
invalidate_cache(w, i) ==
    [w EXCEPT !.cache[i] = None,
              !.events = Append(@, [fn |-> "invalidate_cache", member |-> i,
                                    arg |-> None, out |-> "ok"])]

\* A plugin snapshot's read of its backend state: served from the cache when
\* it holds state, from the provider otherwise.
snapshot_state(b, c, i) == IF c[i] /= None THEN c[i][1] ELSE b[i]

\* Snapshot.status and Snapshot.autoactivate of member i.
Snapshot_status(b, c, i) == snapshot_state(b, c, i).status

Snapshot_autoactivate(b, c, i) == snapshot_state(b, c, i).autoactivate

\* ---------------------------------------------------------------------------
\* Snapshot methods (snapm/_snapm.py 720-773)
\* ---------------------------------------------------------------------------

\* Snapshot.delete: self._provider.delete_snapshot(self.name)
Snapshot_delete(w, i, oc) == provider_call(w, i, "delete_snapshot", None, oc)

\* Snapshot.rename: return self._provider.rename_snapshot(self.name, ...)
Snapshot_rename(w, i, new_name, oc) ==
    provider_call(w, i, "rename_snapshot", new_name, oc)

\* Snapshot.rollback: self._provider.rollback_snapshot(self.name)
Snapshot_rollback(w, i, oc) == provider_call(w, i, "rollback_snapshot", None, oc)

\* Snapshot.activate: the provider call, then self.invalidate_cache(); an
\* error of the provider call propagates before invalidate_cache is reached.
Snapshot_activate(w, i, oc) ==
    LET r == provider_call(w, i, "activate_snapshot", None, oc) IN
    IF r.raised /= "no" THEN r ELSE invalidate_cache(r, i)

\* A variant of Snapshot.deactivate that invalidates the cache whether or not
\* the provider call raised.
Snapshot_deactivate_always_invalidates(w, i, oc) ==
    invalidate_cache(provider_call(w, i, "deactivate_snapshot", None, oc), i)

\* Snapshot.deactivate: the provider call, then self.invalidate_cache().
Snapshot_deactivate(w, i, oc) ==
    LET r == provider_call(w, i, "deactivate_snapshot", None, oc) IN
    IF r.raised /= "no" THEN r ELSE invalidate_cache(r, i)

\* Snapshot.set_autoactivate: the provider call, then self.invalidate_cache().
Snapshot_set_autoactivate(w, i, auto, oc) ==
    LET r == provider_call(w, i, "set_autoactivate", auto, oc) IN
    IF r.raised /= "no" THEN r ELSE invalidate_cache(r, i)

\* ---------------------------------------------------------------------------
\* SnapshotSet properties (snapm/_snapm.py 497-547)
\* ---------------------------------------------------------------------------

\* Python's any() and all() over a list of booleans, left to right.
RECURSIVE any(_)
any(bs) == IF bs = <<>> THEN FALSE ELSE IF Head(bs) THEN TRUE ELSE any(Tail(bs))

RECURSIVE all(_)
all(bs) == IF bs = <<>> THEN TRUE ELSE IF Head(bs) THEN all(Tail(bs)) ELSE FALSE

\* A variant of SnapshotSet.status that looks for INACTIVE members first.
SnapshotSet_status_inactive_first(statuses) ==
    IF any([i \in 1..Len(statuses) |-> statuses[i] = "INACTIVE"]) THEN "INACTIVE"
    ELSE IF any([i \in 1..Len(statuses) |-> statuses[i] = "INVALID"]) THEN "INVALID"
    ELSE "ACTIVE"

\* A variant of SnapshotSet.status that reports ACTIVE only for a set with at
\* least one ACTIVE member.
SnapshotSet_status_needs_active(statuses) ==
    IF any([i \in 1..Len(statuses) |-> statuses[i] = "INVALID"]) THEN "INVALID"
    ELSE IF any([i \in 1..Len(statuses) |-> statuses[i] = "ACTIVE"])
            /\ ~any([i \in 1..Len(statuses) |-> statuses[i] = "INACTIVE"])
         THEN "ACTIVE"
         ELSE "INACTIVE"

\* SnapshotSet.status over the members' statuses, in set order.
SnapshotSet_status(statuses) ==
    IF any([i \in 1..Len(statuses) |-> statuses[i] = "INVALID"]) THEN "INVALID"
    ELSE IF any([i \in 1..Len(statuses) |-> statuses[i] = "INACTIVE"]) THEN "INACTIVE"
    ELSE "ACTIVE"

\* A variant of the getter that uses any() where the code uses all().
SnapshotSet_autoactivate_any(autos) == any(autos)

\* SnapshotSet.autoactivate (getter) over the members' autoactivate values.
SnapshotSet_autoactivate(autos) == all(autos)

\* A variant of the setter's except clause that catches SnapmNotFoundError only.
setter_catches_notfound(kind) == kind = "SnapmNotFoundError"

\* The `except SnapmError` clause of the autoactivate setter.
setter_catches(kind) == kind \in SnapmErrorKinds

\* SnapshotSet.autoactivate (setter): for snapshot in self.snapshots, from
\* member k on; ocs[k] is the outcome of member k's provider call.
RECURSIVE autoactivate_setter(_, _, _, _, _)
autoactivate_setter(w, n, k, value, ocs) ==
    IF k > n THEN w
    ELSE LET r == Snapshot_set_autoactivate(w, k, value, ocs[k]) IN
         IF r.raised = "no" THEN autoactivate_setter(r, n, k + 1, value, ocs)
         ELSE IF setter_catches(r.raised)
              THEN autoactivate_setter([r EXCEPT !.raised = "no"],
                                       n, k + 1, value, ocs)
              ELSE r

\* The members' reported statuses and autoactivate values, in set order.
member_statuses ==
    [i \in 1..Len(snapshots) |-> Snapshot_status(backend, cache, i)]

member_autos ==
    [i \in 1..Len(snapshots) |-> Snapshot_autoactivate(backend, cache, i)]

\* ---------------------------------------------------------------------------
\* Set identity (snapm/_snapm.py 41-42, 432-434)
\* ---------------------------------------------------------------------------

\* uuid5(namespace, string): a deterministic hash, taken as injective.
uuid5(namespace, string) == <<namespace, string>>

\* A variant of the set uuid that hashes the name alone.
set_uuid_name_only(name, timestamp) == uuid5("NAMESPACE_SNAPSHOT_SET", name)

\* SnapshotSet.uuid: uuid5(NAMESPACE_SNAPSHOT_SET, name + str(timestamp)).
set_uuid(name, timestamp) ==
    uuid5("NAMESPACE_SNAPSHOT_SET", name \o ToString(timestamp))

\* Selection(name=..., uuid=...): the other attributes default to None.
Selection(name, uuid) ==
    [name |-> name, uuid |-> uuid, timestamp |-> None, nr_snapshots |-> None,
     mount_points |-> None, origin |-> None, mount_point |-> None,
     snapshot_name |-> None, snapshot_uuid |-> None]

\* A variant of is_single that accepts a Selection with any field set.
is_single_any_field(s) == \E a \in DOMAIN s : s[a] /= None

\* A variant of is_single that tests the name only.
is_single_name_only(s) == s.name /= None

\* Selection.is_single
is_single(s) == s.name /= None \/ s.uuid /= None

\* A variant of is_null that looks at the snapshot-set attributes only.
is_null_set_attrs_only(s) ==
    LET attrs == SelectSeq(snapshot_set_attrs, LAMBDA attr : attr_has_value(s, attr))
    IN ~any([i \in 1..Len(attrs) |-> attrs[i] /= ""])

\* Selection.is_null: attrs is the list of the names of the attributes that
\* have a value, and any(attrs) is the truth of some name in it (a non-empty
\* string is true).
is_null(s) ==
    LET attrs == SelectSeq(all_attrs, LAMBDA attr : attr_has_value(s, attr))
    IN ~any([i \in 1..Len(attrs) |-> attrs[i] /= ""])

\* ---------------------------------------------------------------------------
\* Selection.from_cmd_args (snapm/_snapm.py 261-313).  A command line string
\* is the sequence of its characters.
\* ---------------------------------------------------------------------------

HexDigits == {"0", "1", "2", "3", "4", "5", "6", "7", "8", "9",
              "a", "b", "c", "d", "e", "f", "A", "B", "C", "D", "E", "F"}

\* The number of hexadecimal digits of a UUID.
UuidHexLen == 32

\* UUID(text): the hyphens are dropped; ValueError unless 32 hexadecimal
\* digits remain.
UUID(text) ==
    LET hex == SelectSeq(text, LAMBDA c : c /= "-") IN
    IF Len(hex) /= UuidHexLen THEN "ValueError"
    ELSE IF \E i \in DOMAIN hex : hex[i] \notin HexDigits THEN "ValueError"
    ELSE "ok"

\* Python's truth value of an optional string: None and the empty string are
\* false.
truthy(v) == v /= None /\ v[1] /= <<>>

\* hasattr(cmd_args, attr): a parser that does not define the option leaves
\* the attribute out.
hasattr(cmd_args, attr) == cmd_args[attr] /= "absent"

\* A variant of from_cmd_args that looks at --uuid before --name.
from_cmd_args_uuid_first(cmd_args) ==
    LET from_id == truthy(cmd_args.identifier)
        id_is_uuid == from_id /\ UUID(cmd_args.identifier[1]) = "ok"
        from_uuid == ~from_id /\ truthy(cmd_args.uuid)
        from_name == ~from_id /\ ~from_uuid /\ truthy(cmd_args.name)
    IN
    IF from_uuid /\ UUID(cmd_args.uuid[1]) /= "ok"
    THEN [raised |-> "SnapmInvalidIdentifierError", value |-> None]
    ELSE [raised |-> "no",
          value |-> Some([Selection(
                            IF from_id /\ ~id_is_uuid THEN cmd_args.identifier
                            ELSE IF from_name THEN cmd_args.name ELSE None,
                            IF id_is_uuid THEN cmd_args.identifier
                            ELSE IF from_uuid THEN cmd_args.uuid ELSE None)
                          EXCEPT !.snapshot_name =
                                     IF hasattr(cmd_args, "snapshot_name")
                                     THEN cmd_args.snapshot_name ELSE None,
                                 !.snapshot_uuid =
                                     IF hasattr(cmd_args, "snapshot_uuid")
                                     THEN cmd_args.snapshot_uuid ELSE None])]

\* Selection.from_cmd_args(cmd_args): the identifier, when there is one, is
\* taken as uuid if UUID() accepts it and as name otherwise; else --name is
\* taken; else --uuid, which must be a UUID.
from_cmd_args(cmd_args) ==
    LET from_id == truthy(cmd_args.identifier)
        id_is_uuid == from_id /\ UUID(cmd_args.identifier[1]) = "ok"
        from_name == ~from_id /\ truthy(cmd_args.name)
        from_uuid == ~from_id /\ ~from_name /\ truthy(cmd_args.uuid)
    IN
    IF from_uuid /\ UUID(cmd_args.uuid[1]) /= "ok"
    THEN [raised |-> "SnapmInvalidIdentifierError", value |-> None]
    ELSE [raised |-> "no",
          value |-> Some([Selection(
                            IF from_id /\ ~id_is_uuid THEN cmd_args.identifier
                            ELSE IF from_name THEN cmd_args.name ELSE None,
                            IF id_is_uuid THEN cmd_args.identifier
                            ELSE IF from_uuid THEN cmd_args.uuid ELSE None)
                          EXCEPT !.snapshot_name =
                                     IF hasattr(cmd_args, "snapshot_name")
                                     THEN cmd_args.snapshot_name ELSE None,
                                 !.snapshot_uuid =
                                     IF hasattr(cmd_args, "snapshot_uuid")
                                     THEN cmd_args.snapshot_uuid ELSE None])]

\* ---------------------------------------------------------------------------
\* Snapshot and SnapshotSet objects: constructors and container properties
\* ---------------------------------------------------------------------------

\* A variant of Snapshot.__init__ that hashes the set name into the uuid.
Snapshot_init_uuid_with_set(name, snapset_name, origin, timestamp, mount_point, provider) ==
    [name |-> name, uuid |-> uuid5("NAMESPACE_SNAPSHOT", name \o snapset_name),
     snapset_name |-> snapset_name, origin |-> origin, timestamp |-> timestamp,
     mount_point |-> mount_point, provider |-> provider]

\* Snapshot.__init__: the uuid is uuid5(NAMESPACE_SNAPSHOT, name).
Snapshot_init(name, snapset_name, origin, timestamp, mount_point, provider) ==
    [name |-> name, uuid |-> uuid5("NAMESPACE_SNAPSHOT", name),
     snapset_name |-> snapset_name, origin |-> origin, timestamp |-> timestamp,
     mount_point |-> mount_point, provider |-> provider]

\* A variant of the dict assignment that keeps the value of a key it holds.
dict_set_keep_first(d, key, value) ==
    [x \in DOMAIN d \cup {key} |-> IF x \in DOMAIN d THEN d[x] ELSE value]

\* d[key] = value on a Python dict: the value of an existing key is replaced.
dict_set(d, key, value) ==
    [x \in DOMAIN d \cup {key} |-> IF x = key THEN value ELSE d[x]]

\* The loop of SnapshotSet.__init__ that fills self._by_mount_point, from
\* member k on.
RECURSIVE index_by_mount_point(_, _, _)
index_by_mount_point(members, k, d) ==
    IF k > Len(members) THEN d
    ELSE index_by_mount_point(members, k + 1,
                              dict_set(d, members[k].mount_point, members[k]))

\* SnapshotSet.__init__
SnapshotSet_init(name, timestamp, members) ==
    [name |-> name, timestamp |-> timestamp, uuid |-> set_uuid(name, timestamp),
     snapshots |-> members,
     by_mount_point |-> index_by_mount_point(members, 1, [x \in {} |-> None]),
     boot_entry |-> None, rollback_entry |-> None]

\* A variant of nr_snapshots that counts the entries of the mount point index.
SnapshotSet_nr_snapshots_of_index(S) == Cardinality(DOMAIN S.by_mount_point)

\* SnapshotSet.nr_snapshots
SnapshotSet_nr_snapshots(S) == Len(S.snapshots)

\* SnapshotSet.mount_points
SnapshotSet_mount_points(S) ==
    [i \in 1..Len(S.snapshots) |-> S.snapshots[i].mount_point]

\* SnapshotSet.snapshot_by_mount_point
snapshot_by_mount_point(S, mount_point) ==
    IF mount_point \in DOMAIN S.by_mount_point
    THEN [raised |-> "no", value |-> Some(S.by_mount_point[mount_point])]
    ELSE [raised |-> "SnapmNotFoundError", value |-> None]

\* ---------------------------------------------------------------------------
\* Manager: the snapshot sets that discovery yields and the boot store, and
\* the Manager calls the command interface makes
\* ---------------------------------------------------------------------------

\* A snapshot set as the Manager holds it.
SnapsetRecord(name, timestamp, mount_points) ==
    [name |-> name, timestamp |-> timestamp, mount_points |-> mount_points,
     active |-> FALSE, rollback |-> FALSE]

\* A variant of the match that takes mount_points as a subset: the candidate
\* has at least the requested mount points.
matches_mount_points_subset(s, selection) ==
    /\ selection.name /= None => selection.name[1] = s.name
    /\ selection.uuid /= None => selection.uuid[1] = set_uuid(s.name, s.timestamp)
    /\ selection.timestamp /= None => selection.timestamp[1] = s.timestamp
    /\ selection.nr_snapshots /= None => selection.nr_snapshots[1] = Len(s.mount_points)
    /\ selection.mount_points /= None =>
          \A i \in DOMAIN selection.mount_points[1] :
              InSeq(selection.mount_points[1][i], s.mount_points)

\* A candidate set matches a Selection iff every set-level field set on the
\* Selection equals the candidate's attribute.
matches(s, selection) ==
    /\ selection.name /= None => selection.name[1] = s.name
    /\ selection.uuid /= None => selection.uuid[1] = set_uuid(s.name, s.timestamp)
    /\ selection.timestamp /= None => selection.timestamp[1] = s.timestamp
    /\ selection.nr_snapshots /= None => selection.nr_snapshots[1] = Len(s.mount_points)
    /\ selection.mount_points /= None => selection.mount_points[1] = s.mount_points

\* Manager.find_snapshot_sets: all matches, none being no error.
find_snapshot_sets(sets, selection) == { s \in sets : matches(s, selection) }

\* The state the Manager calls act on: the sets, the boot store, the error
\* being raised ("no" when none), the value returned and the log of calls.
Mgr(sets, store) ==
    [snapsets |-> sets, bootStore |-> store, raised |-> "no", value |-> None,
     calls |-> <<>>]

\* The Manager state after a call `fn(arg)` that ended with `out`.
logged(m, fn, arg, out) ==
    [m EXCEPT !.calls = Append(@, [fn |-> fn, arg |-> arg, out |-> out]),
              !.raised = IF out = "ok" THEN "no" ELSE out]

\* Manager.create_snapshot_set(name, mount_points), at time ts.
create_snapshot_set(m, name, mount_points, ts, oc) ==
    IF \E s \in m.snapsets : s.name = name
    THEN logged(m, "create_snapshot_set", name, "SnapmExistsError")
    ELSE IF oc /= "ok" THEN logged(m, "create_snapshot_set", name, oc)
    ELSE LET new == SnapsetRecord(name, ts, mount_points) IN
         [logged(m, "create_snapshot_set", name, "ok")
            EXCEPT !.snapsets = @ \cup {new}, !.value = Some(new)]

\* Manager.activate_snapshot_sets(selection)
activate_snapshot_sets(m, selection, oc) ==
    IF oc /= "ok" THEN logged(m, "activate_snapshot_sets", selection, oc)
    ELSE [logged(m, "activate_snapshot_sets", selection, "ok")
            EXCEPT !.snapsets = { IF matches(s, selection)
                                  THEN [s EXCEPT !.active = TRUE] ELSE s : s \in @ }]

\* A variant of the resolution with a first-match fallback: no identifier
\* selects every set, and of several matches one is taken.
resolve_snapset_first_match(sets, name, uuid) ==
    LET found == find_snapshot_sets(sets, Selection(name, uuid)) IN
    IF found = {} THEN {} ELSE {CHOOSE s \in found : TRUE}

\* The sets a boot or rollback entry request resolves to: a single-field
\* Selection is built from the name when one is given, from the uuid otherwise.
resolve_snapset(sets, name, uuid) ==
    IF name = None /\ uuid = None THEN {}
    ELSE IF name /= None THEN find_snapshot_sets(sets, Selection(name, None))
    ELSE find_snapshot_sets(sets, Selection(None, uuid))

\* Manager.create_snapshot_set_boot_entry / ..._rollback_entry (by `kind`):
\* NotFoundError unless exactly one set is resolved; then the boot store is
\* asked for a record keyed to the set's uuid, which ends with `oc`.
create_entry(m, fn, kind, name, uuid, oc) ==
    LET found == resolve_snapset(m.snapsets, name, uuid)
        arg == [name |-> name, uuid |-> uuid] IN
    IF Cardinality(found) /= 1 THEN logged(m, fn, arg, "SnapmNotFoundError")
    ELSE IF oc /= "ok" THEN logged(m, fn, arg, oc)
    ELSE LET s == CHOOSE x \in found : TRUE IN
         [logged(m, fn, arg, "ok")
            EXCEPT !.bootStore = @ \cup {[uuid |-> set_uuid(s.name, s.timestamp),
                                          kind |-> kind]}]

create_snapshot_set_boot_entry(m, name, uuid, oc) ==
    create_entry(m, "create_snapshot_set_boot_entry", "boot", name, uuid, oc)

create_snapshot_set_rollback_entry(m, name, uuid, oc) ==
    create_entry(m, "create_snapshot_set_rollback_entry", "rollback", name, uuid, oc)

\* Manager.delete_snapshot_sets(selection): the boot and rollback entries of
\* every matching set are deleted, then the set with all its members; the
\* number of sets deleted is returned.
delete_snapshot_sets(m, selection) ==
    LET gone == find_snapshot_sets(m.snapsets, selection)
        uuids == { set_uuid(s.name, s.timestamp) : s \in gone } IN
    [logged(m, "delete_snapshot_sets", selection, "ok")
       EXCEPT !.bootStore = { e \in @ : e.uuid \notin uuids },
              !.snapsets = @ \ gone,
              !.value = Some(Cardinality(gone))]

\* Manager.rollback_snapshot_sets(selection): a single resolved target is
\* required; every member of it is marked for roll back.
rollback_snapshot_sets(m, selection) ==
    LET found == find_snapshot_sets(m.snapsets, selection) IN
    IF Cardinality(found) /= 1
    THEN logged(m, "rollback_snapshot_sets", selection, "SnapmNotFoundError")
    ELSE [logged(m, "rollback_snapshot_sets", selection, "ok")
            EXCEPT !.snapsets = { IF s \in found
                                  THEN [s EXCEPT !.rollback = TRUE] ELSE s : s \in @ },
                   !.value = Some(Cardinality(found))]

\* ---------------------------------------------------------------------------
\* The procedural interface (snapm/command.py 336-398)
\* ---------------------------------------------------------------------------

\* A variant of the activation test that looks at the boot flag only.
needs_activation_boot_only(boot, rollback) == boot

\* `if boot or rollback:` - whether create_snapset activates the new set.
needs_activation(boot, rollback) == boot \/ rollback

\* `except (OSError, ValueError, TypeError)` around the entry creation calls.
entry_handler_catches(kind) == kind \in {"OSError", "ValueError", "TypeError"}

\* The handler of a failed entry creation: log, delete the set, return None.
entry_failed(m, select) ==
    [delete_snapshot_sets([m EXCEPT !.raised = "no"], select)
       EXCEPT !.value = None]

\* create_snapset(manager, name, mount_points, boot, rollback); ocs gives the
\* outcome of each Manager call it may make.
create_snapset(m, name, mount_points, boot, rollback, ts, ocs) ==
    LET m1 == create_snapshot_set(m, name, mount_points, ts, ocs.create) IN
    IF m1.raised /= "no" THEN m1
    ELSE
    LET snapset == m1.value
        select == Selection(Some(snapset[1].name), None)
        m2 == IF needs_activation(boot, rollback)
              THEN activate_snapshot_sets(m1, select, ocs.activate)
              ELSE m1 IN
    IF m2.raised /= "no" THEN m2
    ELSE
    LET m3 == IF boot
              THEN create_snapshot_set_boot_entry(m2, Some(snapset[1].name),
                                                  None, ocs.boot)
              ELSE m2 IN
    IF m3.raised /= "no"
    THEN IF entry_handler_catches(m3.raised) THEN entry_failed(m3, select) ELSE m3
    ELSE
    LET m4 == IF rollback
              THEN create_snapshot_set_rollback_entry(m3, Some(snapset[1].name),
                                                      None, ocs.rollback)
              ELSE m3 IN
    IF m4.raised /= "no"
    THEN IF entry_handler_catches(m4.raised) THEN entry_failed(m4, select) ELSE m4
    ELSE [m4 EXCEPT !.value = snapset]

\* delete_snapset(manager, selection)
delete_snapset(m, selection) ==
    IF ~is_single(selection)
    THEN [m EXCEPT !.raised = "SnapmInvalidIdentifierError"]
    ELSE delete_snapshot_sets(m, selection)

\* rollback_snapset(manager, selection)
rollback_snapset(m, selection) ==
    IF ~is_single(selection)
    THEN [m EXCEPT !.raised = "SnapmInvalidIdentifierError"]
    ELSE rollback_snapshot_sets(m, selection)

\* ---------------------------------------------------------------------------
\* The debug mask (snapm/_snapm.py 29-38, 90-112; snapm/command.py 866-886)
\* ---------------------------------------------------------------------------

SNAPM_DEBUG_MANAGER == 1

SNAPM_DEBUG_COMMAND == 2

SNAPM_DEBUG_PLUGINS == 4

SNAPM_DEBUG_REPORT == 8

\* a | b on non-negative integers
RECURSIVE bit_or(_, _)
bit_or(a, b) ==
    IF a = 0 THEN b
    ELSE IF b = 0 THEN a
    ELSE (IF a % 2 = 1 \/ b % 2 = 1 THEN 1 ELSE 0) + 2 * bit_or(a \div 2, b \div 2)

SNAPM_DEBUG_ALL ==
    bit_or(bit_or(SNAPM_DEBUG_MANAGER, SNAPM_DEBUG_COMMAND),
           bit_or(SNAPM_DEBUG_PLUGINS, SNAPM_DEBUG_REPORT))

\* set_debug_mask(mask), the mask being `old` before: the new mask, or
\* ValueError for a mask out of range.
set_debug_mask(old, mask) ==
    IF mask < 0 \/ mask > SNAPM_DEBUG_ALL
    THEN [raised |-> "ValueError", mask |-> old]
    ELSE [raised |-> "no", mask |-> mask]

\* mask_map of set_debug
mask_map ==
    [manager |-> SNAPM_DEBUG_MANAGER, command |-> SNAPM_DEBUG_COMMAND,
     plugins |-> SNAPM_DEBUG_PLUGINS, report |-> SNAPM_DEBUG_REPORT,
     all |-> SNAPM_DEBUG_ALL]

\* The loop of set_debug over debug_arg.split(","), from name k on: the mask
\* or-ed so far, or ValueError at the first unknown name.
RECURSIVE set_debug_loop(_, _, _)
set_debug_loop(names, k, mask) ==
    IF k > Len(names) THEN [raised |-> "no", mask |-> mask]
    ELSE IF names[k] \notin DOMAIN mask_map THEN [raised |-> "ValueError", mask |-> mask]
    ELSE set_debug_loop(names, k + 1, bit_or(mask, mask_map[names[k]]))

\* Whether a --debug argument was given (`if not debug_arg`, `if
\* cmd_args.debug`); the argument is kept as the list debug_arg.split(",")
\* of its names, which is [""] for the empty string.
debug_given(debug_arg) == debug_arg /= None /\ debug_arg[1] /= <<"">>

\* A variant of set_debug that stores the mask of the names read before an
\* unknown one.
set_debug_keeps_partial(old, debug_arg) ==
    IF ~debug_given(debug_arg) THEN [raised |-> "no", mask |-> old]
    ELSE LET r == set_debug_loop(debug_arg[1], 1, 0) IN
         IF r.raised /= "no" THEN [raised |-> r.raised, mask |-> r.mask]
         ELSE set_debug_mask(old, r.mask)

\* set_debug(debug_arg), the mask being `old` before.
set_debug(old, debug_arg) ==
    IF ~debug_given(debug_arg) THEN [raised |-> "no", mask |-> old]
    ELSE LET r == set_debug_loop(debug_arg[1], 1, 0) IN
         IF r.raised /= "no" THEN [raised |-> r.raised, mask |-> old]
         ELSE set_debug_mask(old, r.mask)

\* ---------------------------------------------------------------------------
\* The command handlers and main (snapm/command.py 552-780, 1176-1202)
\* ---------------------------------------------------------------------------

\* What a command handler leaves: the error it raises ("no" when none), the
\* status it returns, what it did, the Manager state and the snapshots' world.
Handled(raised, status, note, m, w) ==
    [raised |-> raised, status |-> status, note |-> note, m |-> m, w |-> w]

\* Manager.find_snapshots(selection): the positions of the snapshots that
\* exist and match the snapshot-level criteria, in order.
find_snapshots(snaps, b, selection) ==
    SelectSeq([i \in 1..Len(snaps) |-> i],
              LAMBDA i : /\ b[i].present
                         /\ selection.mount_point /= None
                               => selection.mount_point[1] = snaps[i].mount_point
                         /\ selection.snapshot_name /= None
                               => selection.snapshot_name[1] = snaps[i].name)

\* A variant of the loop that goes on to the next snapshot after an error.
loop_ends_after_last(w, found, k) == k > Len(found)

\* The `for snapshot in snapshots` loop is over after the last snapshot found
\* and when a call raised: nothing in the loop catches the error.
loop_ends(w, found, k) == k > Len(found) \/ w.raised /= "no"

\* `for snapshot in snapshots: snapshot.<method>(...)`, from the k-th found
\* snapshot on; an error of a call ends the loop and propagates.
RECURSIVE for_each_snapshot(_, _, _, _, _, _)
for_each_snapshot(w, found, k, method, arg, ocs) ==
    IF loop_ends(w, found, k) THEN w
    ELSE LET i == found[k]
             r == CASE method = "activate" -> Snapshot_activate(w, i, ocs[i])
                    [] method = "deactivate" -> Snapshot_deactivate(w, i, ocs[i])
                    [] method = "set_autoactivate" ->
                           Snapshot_set_autoactivate(w, i, arg, ocs[i])
         IN for_each_snapshot(r, found, k + 1, method, arg, ocs)

\* The parser of the autoactivate commands (_add_autoactivate_args): --yes
\* and --no are store_true flags, False when not given.
autoactivate_args(flags) == [yes |-> "--yes" \in flags, no |-> "--no" \in flags]

\* A variant of the requested value that is True unless --no is given.
auto_unless_no(cmd_args) == ~cmd_args.no

\* `auto = bool(cmd_args.yes)` of the autoactivate commands.
auto_of(cmd_args) == cmd_args.yes

\* _autoactivate_cmd: manager.set_autoactivate(select, auto=auto) on the
\* members of the matching set, then status 0.
autoactivate_cmd(m, w, n, cmd_args, env) ==
    LET r == autoactivate_setter(w, n, 1, auto_of(cmd_args), env.provider) IN
    IF r.raised /= "no" THEN Handled(r.raised, None, "raised", m, r)
    ELSE Handled("no", Some(0), "done", m, r)

\* _activate_snapshot_cmd, _deactivate_snapshot_cmd and
\* _autoactivate_snapshot_cmd (by `method`): status 1 when find_snapshots
\* returns nothing, else the method is called on every snapshot found.
snapshot_cmd(m, w, snaps, method, select, arg, env) ==
    IF env.manager /= "ok" THEN Handled(env.manager, None, "no manager", m, w)
    ELSE LET found == find_snapshots(snaps, w.backend, select) IN
         IF found = <<>> THEN Handled("no", Some(1), "no match", m, w)
         ELSE LET r == for_each_snapshot(w, found, 1, method, arg, env.provider) IN
              IF r.raised /= "no" THEN Handled(r.raised, None, "raised", m, r)
              ELSE Handled("no", Some(0), "done", m, r)

\* A variant of _create_cmd that does not test the snapset for None.
create_cmd_ignores_none(m, w, cmd_args, env) ==
    IF env.manager /= "ok" THEN Handled(env.manager, None, "no manager", m, w)
    ELSE LET r == create_snapset(m, cmd_args.snapset_name, cmd_args.mount_points,
                                 cmd_args.bootable, cmd_args.rollback,
                                 env.ts, env.ocs) IN
         IF r.raised /= "no" THEN Handled(r.raised, None, "raised", r, w)
         ELSE Handled("no", Some(0),
                      IF r.value = None THEN "snapset is None" ELSE "done", r, w)

\* _create_cmd: status 1 when create_snapset returns None, else 0.
create_cmd(m, w, cmd_args, env) ==
    IF env.manager /= "ok" THEN Handled(env.manager, None, "no manager", m, w)
    ELSE LET r == create_snapset(m, cmd_args.snapset_name, cmd_args.mount_points,
                                 cmd_args.bootable, cmd_args.rollback,
                                 env.ts, env.ocs) IN
         IF r.raised /= "no" THEN Handled(r.raised, None, "raised", r, w)
         ELSE IF r.value = None THEN Handled("no", Some(1), "snapset is None", r, w)
         ELSE Handled("no", Some(0), "done", r, w)

\* _delete_cmd
delete_cmd(m, w, cmd_args, env) ==
    IF env.manager /= "ok" THEN Handled(env.manager, None, "no manager", m, w)
    ELSE LET r == delete_snapset(m, cmd_args.select) IN
         IF r.raised /= "no" THEN Handled(r.raised, None, "raised", r, w)
         ELSE Handled("no", Some(0), "done", r, w)

\* _list_cmd through _generic_list_cmd: without --debug a ValueError of the
\* report is printed and the status is 1; any other error, and every error
\* with --debug, propagates.
list_cmd(m, w, cmd_args, env) ==
    IF env.manager /= "ok" THEN Handled(env.manager, None, "no manager", m, w)
    ELSE IF env.print = "ok" THEN Handled("no", Some(0), "done", m, w)
    ELSE IF ~debug_given(cmd_args.debug) /\ issubclass(env.print, "ValueError")
    THEN Handled("no", Some(1), "report failed", m, w)
    ELSE Handled(env.print, None, "raised", m, w)

\* cmd_args.func(cmd_args)
dispatch(m, w, snaps, cmd_args, env) ==
    CASE cmd_args.func = "_create_cmd" -> create_cmd(m, w, cmd_args, env)
      [] cmd_args.func = "_delete_cmd" -> delete_cmd(m, w, cmd_args, env)
      [] cmd_args.func = "_list_cmd" -> list_cmd(m, w, cmd_args, env)
      [] cmd_args.func = "_activate_snapshot_cmd" ->
            snapshot_cmd(m, w, snaps, "activate", cmd_args.select, None, env)
      [] cmd_args.func = "_deactivate_snapshot_cmd" ->
            snapshot_cmd(m, w, snaps, "deactivate", cmd_args.select, None, env)
      [] cmd_args.func = "_autoactivate_snapshot_cmd" ->
            snapshot_cmd(m, w, snaps, "set_autoactivate", cmd_args.select,
                         auto_of(cmd_args), env)

\* A variant of the top-level handler of main that catches Snapm errors only.
main_catches_snapm_only(kind) == issubclass(kind, "SnapmError")

\* `except Exception` around the handler call of main without --debug.
main_catches(kind) == issubclass(kind, "Exception")

\* What main leaves: the status it returns (None when an error propagates
\* out of it), the error, how far it got, and the state it leaves.
MainResult(returned, raised, stage, note, mask, m, w) ==
    [returned |-> returned, raised |-> raised, stage |-> stage, note |-> note,
     mask |-> mask, m |-> m, w |-> w]

\* The end of main once the handler `cmd_args.func(cmd_args)` has left h: its
\* status is returned; its error is caught (status 1) without --debug when
\* `except Exception` matches it, and propagates otherwise.
main_status(mask, cmd_args, h) ==
    IF h.raised = "no"
    THEN MainResult(h.status, "no", "returned", h.note, mask, h.m, h.w)
    ELSE IF ~debug_given(cmd_args.debug) /\ main_catches(h.raised)
    THEN MainResult(Some(1), "no", "caught", h.raised, mask, h.m, h.w)
    ELSE MainResult(None, h.raised, "propagated", h.raised, mask, h.m, h.w)

\* main from `status = 1` on, set_debug(cmd_args.debug) having left d: main
\* returns 1 when set_debug raised ValueError and when no command was given.
main_after_set_debug(d, m, w, snaps, cmd_args, env) ==
    IF d.raised /= "no"
    THEN MainResult(Some(1), "no", "set_debug", "unknown debug option", d.mask, m, w)
    ELSE IF cmd_args.func = "none"
    THEN MainResult(Some(1), "no", "parse", "no command", d.mask, m, w)
    ELSE main_status(d.mask, cmd_args, dispatch(m, w, snaps, cmd_args, env))

\* main(args), args parsed into cmd_args: status is 1 until the handler
\* returns one.
main(mask, m, w, snaps, cmd_args, env) ==
    main_after_set_debug(set_debug(mask, cmd_args.debug), m, w, snaps, cmd_args, env)

\* ---------------------------------------------------------------------------
\* The Manager on the backends' catalog: creation of the member snapshots of
\* a set at one timestamp, and discovery by (snapset_name, timestamp)
\* ---------------------------------------------------------------------------

\* The name a backend gives the snapshot of `origin` in a set.
format_snapshot_name(origin, snapset_name, timestamp, mount_point) ==
    origin \o "-snapset_" \o snapset_name \o "_" \o ToString(timestamp)
           \o "_" \o mount_point

\* The origin volume mounted at a mount point (the fstab of the tests).
origin_of(mount_point) ==
    IF mount_point = "/" THEN "/dev/test_vg0/root" ELSE "/dev/test_vg0/home"

\* A variant of the timestamp of a member that reads the clock at each
\* backend call.
member_timestamp_at_call(start, now) == now

\* The timestamp a member snapshot is created with: the one captured at the
\* start of the create_snapshot_set call, whatever the time is now.
member_timestamp(start, now) == start

\* The loop of create_snapshot_set over the mount points, from the k-th on:
\* each create_snapshot call takes durs[k] seconds and ends with ocs[k]; the
\* first failure ends the loop.
RECURSIVE take_snapshots(_, _, _, _, _, _, _)
take_snapshots(r, name, mount_points, k, start, durs, ocs) ==
    IF k > Len(mount_points) \/ r.raised /= "no" THEN r
    ELSE LET mp == mount_points[k]
             ts == member_timestamp(start, r.now)
             s == Snapshot_init(format_snapshot_name(origin_of(mp), name, ts, mp),
                                name, origin_of(mp), ts, mp, "lvm2")
             next == IF ocs[k] /= "ok"
                     THEN [r EXCEPT !.raised = ocs[k], !.now = @ + durs[k]]
                     ELSE [r EXCEPT !.catalog = @ \cup {s},
                                    !.created = Append(@, s),
                                    !.now = @ + durs[k]]
         IN take_snapshots(next, name, mount_points, k + 1, start, durs, ocs)

\* Manager.create_snapshot_set(name, mount_points) at time `now`: the
\* timestamp is captured, every member is created with it, and the set is
\* built from the members; a set of that name must not exist.
create_snapshot_set_at(cat, sets, name, mount_points, now, durs, ocs) ==
    LET r0 == [catalog |-> cat, held |-> sets, created |-> <<>>, now |-> now,
               start |-> now, raised |-> "no", value |-> None] IN
    IF \E S \in sets : S.name = name
    THEN [r0 EXCEPT !.raised = "SnapmExistsError"]
    ELSE LET r == take_snapshots(r0, name, mount_points, 1, now, durs, ocs) IN
         IF r.raised /= "no" THEN r
         ELSE LET S == SnapshotSet_init(name, now, r.created) IN
              [r EXCEPT !.held = @ \cup {S}, !.value = Some(S)]

\* The order discovery lists the members of a set in.
MountPointOrder == <<"/", "/home">>

\* The members of a group of snapshots, in mount point order.
RECURSIVE members_in_order(_, _)
members_in_order(group, k) ==
    IF k > Len(MountPointOrder) THEN <<>>
    ELSE LET here == { s \in group : s.mount_point = MountPointOrder[k] } IN
         (IF here = {} THEN <<>> ELSE <<CHOOSE s \in here : TRUE>>)
             \o members_in_order(group, k + 1)

\* Manager.discover_snapshot_sets: the snapshots the backends report are
\* grouped by (snapset_name, timestamp) into SnapshotSet objects.
discover_snapshot_sets(cat) ==
    { SnapshotSet_init(key[1], key[2],
                       members_in_order({ s \in cat : /\ s.snapset_name = key[1]
                                                       /\ s.timestamp = key[2] }, 1)) :
        key \in { <<s.snapset_name, s.timestamp>> : s \in cat } }

\* ---------------------------------------------------------------------------
\* Boot integration on the discovered sets: the boot and rollback records of
\* the boot store, and their re-attachment at discovery
\* ---------------------------------------------------------------------------

\* Snapshot.devpath: the device node the backend exposes the snapshot at.
devpath(s) == "/dev/mapper/" \o s.name

\* The root and mount overrides of a record: the members' devpaths in a boot
\* entry, the members' origins in a rollback entry.
entry_options(kind, S) ==
    { IF kind = "boot" THEN devpath(S.snapshots[i]) ELSE S.snapshots[i].origin :
        i \in DOMAIN S.snapshots }

\* The bootloader record of kind `kind` built for the set S, keyed to its uuid.
BootRecord(kind, S) ==
    [kind |-> kind, uuid |-> S.uuid, options |-> entry_options(kind, S)]

\* S with the record e attached as boot_entry or rollback_entry.
attach_entry(S, e) ==
    IF e.kind = "boot" THEN [S EXCEPT !.boot_entry = Some(e)]
    ELSE [S EXCEPT !.rollback_entry = Some(e)]

\* create_boot_entry / create_rollback_entry, the target being resolved to
\* `found`: NotFoundError unless it is exactly one set; the record is written
\* to the boot store (ending with `oc`) and attached to the set in memory.
create_set_entry(sets, store, kind, found, oc) ==
    IF Cardinality(found) /= 1
    THEN [held |-> sets, bootStore |-> store, raised |-> "SnapmNotFoundError"]
    ELSE IF oc /= "ok" THEN [held |-> sets, bootStore |-> store, raised |-> oc]
    ELSE [held |-> { IF S \in found THEN attach_entry(S, BootRecord(kind, S)) ELSE S :
                       S \in sets },
          bootStore |-> store \cup { BootRecord(kind, S) : S \in found },
          raised |-> "no"]

\* The scan of the boot store for the records keyed to the uuid of S, from
\* the k-th record of the scan on; a later record replaces an earlier one of
\* its kind.
RECURSIVE attach_entries(_, _, _)
attach_entries(S, scan, k) ==
    IF k > Len(scan) THEN S
    ELSE attach_entries(IF scan[k].uuid = S.uuid THEN attach_entry(S, scan[k]) ELSE S,
                        scan, k + 1)

\* A variant of discovery that leaves the sets without their records.
discover_without_entries(cat, scan) == discover_snapshot_sets(cat)

\* Manager.discover_snapshot_sets with the boot store: the sets are rebuilt
\* from the backends' snapshots, then the records found in the boot store
\* are attached.
discover_with_entries(cat, scan) ==
    { attach_entries(S, scan, 1) : S \in discover_snapshot_sets(cat) }

\* Manager.delete_snapshot_sets(selection) with the boot store: the records
\* keyed to the uuid of every matching set are deleted, then its members.
delete_sets_and_entries(cat, sets, store, selection) ==
    [held |-> { S \in sets : ~matches(S, selection) },
     bootStore |-> { e \in store :
                       \A S \in sets : matches(S, selection) => e.uuid /= S.uuid },
     catalog |-> { s \in cat :
                     \A S \in sets : matches(S, selection) =>
                         ~(s.snapset_name = S.name /\ s.timestamp = S.timestamp) }]

\* ---------------------------------------------------------------------------
\* SpecSel: a Selection is built, then validated
\* ---------------------------------------------------------------------------

SelIdle ==
    /\ sel \in { s \in Selections : \A a \in AttrNames : s[a] = None }
    /\ selResult = NoCall

SetIdle ==
    /\ snapshots = <<>>
    /\ backend = <<>>
    /\ cache = <<>>
    /\ lastOp = NoCall

MgrIdle ==
    /\ snapsets = {}
    /\ bootStore = {}
    /\ mgrOp = NoCall

ObjIdle ==
    /\ sset = None
    /\ twin = None
    /\ objOp = NoCall

MainIdle ==
    /\ debugMask = 0
    /\ mainOp = NoCall

TimeIdle ==
    /\ clock = 1
    /\ catalog = {}
    /\ held = {}
    /\ timeOp = NoCall

OtherIdle == ObjIdle /\ MainIdle /\ TimeIdle

InitSel ==
    /\ SelIdle
    /\ OtherIdle
    /\ SetIdle
    /\ MgrIdle

\* Selection(...) : a new Selection replaces the one under test.
NewSelection ==
    /\ \E s \in Selections : sel' = s
    /\ selResult' = NoCall
    /\ UNCHANGED <<setVars, mgrVars, otherVars>>

\* sel.check_valid_selection(snapshot_set=ss, snapshot=sn); the method assigns
\* no attribute of the Selection.
CheckValidSelection ==
    \E ss \in BOOLEAN, sn \in BOOLEAN :
        /\ selResult' = [op |-> "check_valid_selection",
                         snapshot_set |-> ss, snapshot |-> sn,
                         before |-> sel,
                         out |-> check_valid_selection(sel, ss, sn)]
        /\ sel' = sel
        /\ UNCHANGED <<setVars, mgrVars, otherVars>>

\* sel.is_null()
IsNull ==
    /\ selResult' = [op |-> "is_null", before |-> sel, value |-> is_null(sel)]
    /\ sel' = sel
    /\ UNCHANGED <<setVars, mgrVars, otherVars>>

\* sel.is_single()
IsSingle ==
    /\ selResult' = [op |-> "is_single", before |-> sel, value |-> is_single(sel)]
    /\ sel' = sel
    /\ UNCHANGED <<setVars, mgrVars, otherVars>>

NextSel ==
    \/ NewSelection
    \/ CheckValidSelection
    \/ IsNull
    \/ IsSingle

SpecSel == InitSel /\ [][NextSel]_vars

\* ---------------------------------------------------------------------------
\* SpecArgs: Selections are built from parsed command line arguments
\* ---------------------------------------------------------------------------

\* The string of n characters c.
Rep(c, n) == [i \in 1..n |-> c]

\* "00000000-0000-0000-0000-000000000000"
NilUuidText ==
    Rep("0", 8) \o <<"-">> \o Rep("0", 4) \o <<"-">> \o Rep("0", 4) \o <<"-">>
                \o Rep("0", 4) \o <<"-">> \o Rep("0", 12)

\* 32 hexadecimal digits without hyphens, 31 digits, and 32 characters that
\* are no hexadecimal digits.
BareUuidText == Rep("a", 32)

ShortHexText == Rep("0", 31)

NonHexText == Rep("g", 32)

\* A snapshot set name.
NameText == <<"a">>

\* cmd_args as the parsers of the commands leave them: an option that was
\* not given is None, a parser without snapshot options leaves them out.
ParsedArgs ==
    [identifier : {None, Some(<<>>), Some(NameText), Some(NilUuidText),
                   Some(ShortHexText)},
     name : {None, Some(<<>>), Some(NameText)},
     uuid : {None, Some(<<>>), Some(NilUuidText), Some(BareUuidText),
             Some(NonHexText)},
     snapshot_name : {"absent", None, Some(<<"s">>)},
     snapshot_uuid : {"absent", Some(NilUuidText)}]

\* select = Selection.from_cmd_args(cmd_args)
FromCmdArgs ==
    \E cmd_args \in ParsedArgs :
      \E r \in {from_cmd_args(cmd_args)} :
        /\ sel' = IF r.raised = "no" THEN r.value[1] ELSE sel
        /\ selResult' = [op |-> "from_cmd_args", args |-> cmd_args,
                         raised |-> r.raised]
        /\ UNCHANGED <<setVars, mgrVars, otherVars>>

NextArgs ==
    \/ FromCmdArgs
    \/ IsSingle

SpecArgs == InitSel /\ [][NextArgs]_vars

\* ---------------------------------------------------------------------------
\* SpecSet: a SnapshotSet of up to MaxMembers snapshots; members are
\* activated, deactivated and invalidated, and the set's autoactivate property
\* is assigned
\* ---------------------------------------------------------------------------

MaxMembers == 2

MountPoints == {"/", "/home"}

SnapName(i) == "snap" \o ToString(i)

\* The backend state of a freshly discovered member.
NewBackend(name, status, auto) ==
    [name |-> name, status |-> status, autoactivate |-> auto,
     present |-> TRUE, rollback |-> FALSE]

\* A SnapshotSet built from n member snapshots (SnapshotSet.__init__).
SetOfSize(n) ==
    /\ snapshots \in { [i \in 1..n |-> [name |-> SnapName(i), mount_point |-> f[i]]] :
                         f \in [1..n -> MountPoints] }
    /\ backend \in { [i \in 1..n |-> NewBackend(SnapName(i), st[i], au[i])] :
                       st \in [1..n -> {"ACTIVE", "INACTIVE"}],
                       au \in [1..n -> BOOLEAN] }
    /\ cache = [i \in 1..n |-> None]
    /\ lastOp = NoCall

InitSet ==
    /\ SelIdle
    /\ OtherIdle
    /\ MgrIdle
    /\ \E n \in 0..MaxMembers : SetOfSize(n)

\* The state after a Snapshot method ran on member i and left the world r.
MemberStep(i, method, arg, oc, r) ==
    /\ oc = "ok" => backend[i].present
    /\ backend' = r.backend
    /\ cache' = r.cache
    /\ lastOp' = [op |-> method, member |-> i, arg |-> arg, before |-> backend,
                  raised |-> r.raised, events |-> r.events]
    /\ UNCHANGED <<snapshots, selVars, mgrVars, otherVars>>

Activate ==
    \E i \in 1..Len(snapshots), oc \in ProviderOutcomes :
        MemberStep(i, "activate", None, oc,
                   Snapshot_activate(World(backend, cache), i, oc))

Deactivate ==
    \E i \in 1..Len(snapshots), oc \in ProviderOutcomes :
        MemberStep(i, "deactivate", None, oc,
                   Snapshot_deactivate(World(backend, cache), i, oc))

SetAutoactivate ==
    \E i \in 1..Len(snapshots), auto \in BOOLEAN, oc \in ProviderOutcomes :
        MemberStep(i, "set_autoactivate", auto, oc,
                   Snapshot_set_autoactivate(World(backend, cache), i, auto, oc))

Delete ==
    \E i \in 1..Len(snapshots), oc \in ProviderOutcomes :
        MemberStep(i, "delete", None, oc,
                   Snapshot_delete(World(backend, cache), i, oc))

Rename ==
    \E i \in 1..Len(snapshots), oc \in ProviderOutcomes :
        MemberStep(i, "rename", "renamed", oc,
                   Snapshot_rename(World(backend, cache), i, "renamed", oc))

Rollback ==
    \E i \in 1..Len(snapshots), oc \in ProviderOutcomes :
        MemberStep(i, "rollback", None, oc,
                   Snapshot_rollback(World(backend, cache), i, oc))

\* The backend invalidates a snapshot on its own (for instance when its
\* backing store fills up); no Snapshot method is involved.
Invalidation ==
    \E i \in 1..Len(snapshots) :
        /\ backend[i].present
        /\ backend[i].status /= "INVALID"
        /\ backend' = [backend EXCEPT ![i].status = "INVALID"]
        /\ lastOp' = [op |-> "invalidation", member |-> i, arg |-> None,
                      before |-> backend, raised |-> "no", events |-> <<>>]
        /\ UNCHANGED <<snapshots, cache, selVars, mgrVars, otherVars>>

\* A read of status, devpath, origin or autoactivate of a member: it is
\* served from the cache, which the read fills when it is empty.
ReadState ==
    \E i \in 1..Len(snapshots) :
        /\ backend[i].present
        /\ cache[i] = None
        /\ cache' = [cache EXCEPT ![i] = Some(backend[i])]
        /\ lastOp' = [op |-> "read", member |-> i, arg |-> None,
                      before |-> backend, raised |-> "no", events |-> <<>>]
        /\ UNCHANGED <<snapshots, backend, selVars, mgrVars, otherVars>>

\* snapset.autoactivate = value
AssignAutoactivate ==
    \E value \in BOOLEAN, ocs \in [1..Len(snapshots) -> ProviderOutcomes] :
        LET r == autoactivate_setter(World(backend, cache), Len(snapshots),
                                     1, value, ocs) IN
        /\ backend' = r.backend
        /\ cache' = r.cache
        /\ lastOp' = [op |-> "autoactivate.setter", member |-> 0, arg |-> value,
                      before |-> backend, raised |-> r.raised,
                      events |-> r.events]
        /\ UNCHANGED <<snapshots, selVars, mgrVars, otherVars>>

NextSet ==
    \/ Activate
    \/ Deactivate
    \/ Invalidation
    \/ AssignAutoactivate

SpecSet == InitSet /\ [][NextSet]_vars

\* ---------------------------------------------------------------------------
\* SpecCmd: the snapshot-level commands and the autoactivate commands run on
\* the members of a set
\* ---------------------------------------------------------------------------

\* The Selections of the snapshot commands: every snapshot, the snapshots
\* mounted at one place, and a mount point no snapshot has.
CmdSnapshotSelections ==
    { [Selection(None, None) EXCEPT !.mount_point = mp] :
        mp \in {None, Some("/home"), Some("/var")} }

\* The provider outcomes of one command: a failure is drawn only for a
\* snapshot the command finds.
CmdOutcomes(found) ==
    { pocs \in [1..Len(snapshots) -> ProviderOutcomes] :
        \A i \in 1..Len(snapshots) : ~InSeq(i, found) => pocs[i] = "ok" }

\* The snapshots the Manager finds, of one set or of several: up to
\* MaxMembers of them, mounted at /home and / in turn.
InitCmd ==
    /\ SelIdle
    /\ OtherIdle
    /\ MgrIdle
    /\ \E n \in 0..MaxMembers :
          /\ snapshots = [i \in 1..n |->
                            [name |-> SnapName(i),
                             mount_point |-> IF i % 2 = 1 THEN "/home" ELSE "/"]]
          /\ backend \in { [i \in 1..n |-> NewBackend(SnapName(i), st[i], au[i])] :
                             st \in [1..n -> {"ACTIVE", "INACTIVE"}],
                             au \in [1..n -> BOOLEAN] }
          /\ cache = [i \in 1..n |-> None]
          /\ lastOp = NoCall

\* The state after the command handler `func` left h.
CmdStep(func, select, flags, found, h) ==
    /\ backend' = h.w.backend
    /\ cache' = h.w.cache
    /\ lastOp' = [op |-> func, member |-> 0, arg |-> select, flags |-> flags,
                  found |-> found, before |-> backend, raised |-> h.raised,
                  status |-> h.status, events |-> h.w.events]
    /\ UNCHANGED <<snapshots, selVars, mgrVars, otherVars>>

\* A snapshot command with the method it calls on every snapshot found.
SnapshotCmdStep(func, method, flags, select) ==
    \E found \in {find_snapshots(snapshots, backend, select)} :
      \E pocs \in CmdOutcomes(found) :
        CmdStep(func, select, flags, found,
                snapshot_cmd(Mgr({}, {}), World(backend, cache), snapshots,
                             method, select, auto_of(autoactivate_args(flags)),
                             [manager |-> "ok", provider |-> pocs]))

\* snapm snapshot activate
ActivateSnapshotCmd ==
    \E select \in CmdSnapshotSelections :
        SnapshotCmdStep("_activate_snapshot_cmd", "activate", {}, select)

\* snapm snapshot deactivate
DeactivateSnapshotCmd ==
    \E select \in CmdSnapshotSelections :
        SnapshotCmdStep("_deactivate_snapshot_cmd", "deactivate", {}, select)

\* snapm snapshot autoactivate [--yes] [--no]
AutoactivateSnapshotCmd ==
    \E flags \in SUBSET {"--yes", "--no"}, select \in CmdSnapshotSelections :
        SnapshotCmdStep("_autoactivate_snapshot_cmd", "set_autoactivate", flags,
                        select)

\* snapm snapset autoactivate [--yes] [--no]
AutoactivateCmd ==
    \E flags \in SUBSET {"--yes", "--no"},
       pocs \in [1..Len(snapshots) -> ProviderOutcomes] :
        CmdStep("_autoactivate_cmd", Selection(None, None), flags,
                [i \in 1..Len(snapshots) |-> i],
                autoactivate_cmd(Mgr({}, {}), World(backend, cache), Len(snapshots),
                                 autoactivate_args(flags),
                                 [manager |-> "ok", provider |-> pocs]))

NextCmd ==
    \/ ActivateSnapshotCmd
    \/ DeactivateSnapshotCmd
    \/ AutoactivateSnapshotCmd
    \/ AutoactivateCmd

SpecCmd == InitCmd /\ [][NextCmd]_vars

\* ---------------------------------------------------------------------------
\* SpecSnap: one Snapshot, every mutating method, and the cache its reads fill
\* ---------------------------------------------------------------------------

InitSnap ==
    /\ SelIdle
    /\ OtherIdle
    /\ MgrIdle
    /\ SetOfSize(1)

NextSnap ==
    \/ Delete
    \/ Rename
    \/ Rollback
    \/ Activate
    \/ Deactivate
    \/ SetAutoactivate
    \/ ReadState
    \/ Invalidation

SpecSnap == InitSnap /\ [][NextSnap]_vars

\* ---------------------------------------------------------------------------
\* SpecCreate: snapshot sets are created through create_snapset, with or
\* without boot and rollback entries, and deleted through delete_snapset
\* ---------------------------------------------------------------------------

MaxSets == 2

Names == {"a", "b"}

Timestamps == {1, 2}

MountPointLists == {<<"/", "/home">>}

\* What each Manager call of create_snapset can end with.
CreateOutcomes == {"ok", "SnapmNoSpaceError"}

ActivateOutcomes == {"ok", "SnapmCalloutError"}

EntryOutcomes == {"ok", "OSError", "ValueError", "TypeError", "SnapmCalloutError"}

\* The sets discovery can find when the Manager starts: at most MaxSets of
\* them, possibly several of one name taken at different times.
DiscoveredSets ==
    { S \in SUBSET { SnapsetRecord(n, t, <<"/", "/home">>) :
                       n \in Names, t \in Timestamps } :
        Cardinality(S) <= MaxSets }

InitMgr ==
    /\ SelIdle
    /\ OtherIdle
    /\ SetIdle
    /\ snapsets \in DiscoveredSets
    /\ bootStore = {}
    /\ mgrOp = NoCall

\* The state after a command `op` with arguments `args` left the Manager as r.
MgrStep(op, args, r) ==
    /\ snapsets' = r.snapsets
    /\ bootStore' = r.bootStore
    /\ mgrOp' = [op |-> op, args |-> args,
                 before |-> [snapsets |-> snapsets, bootStore |-> bootStore],
                 raised |-> r.raised, value |-> r.value, calls |-> r.calls]
    /\ UNCHANGED <<selVars, setVars, otherVars>>

\* The outcomes of the Manager calls of one create_snapset: an outcome other
\* than "ok" is drawn only for a call that is reached.
CallOutcomes(boot, rollback) ==
    { o \in [create : CreateOutcomes, activate : ActivateOutcomes,
             boot : EntryOutcomes, rollback : EntryOutcomes] :
        /\ o.activate /= "ok" => (boot \/ rollback) /\ o.create = "ok"
        /\ o.boot /= "ok" => boot /\ o.create = "ok" /\ o.activate = "ok"
        /\ o.rollback /= "ok" =>
              rollback /\ o.create = "ok" /\ o.activate = "ok" /\ o.boot = "ok" }

CreateSnapset ==
    \E name \in Names, mps \in MountPointLists, boot \in BOOLEAN,
       rollback \in BOOLEAN, ts \in Timestamps :
    \E ocs \in CallOutcomes(boot, rollback) :
        MgrStep("create_snapset",
                [name |-> name, boot |-> boot, rollback |-> rollback],
                create_snapset(Mgr(snapsets, bootStore), name, mps, boot,
                               rollback, ts, ocs))

\* The Selections the delete and roll back commands are given.
CmdSelections ==
    { [Selection(n, u) EXCEPT !.mount_points = mp] :
        n \in {None, Some("a"), Some("b")},
        u \in {None, Some(set_uuid("a", 1))},
        mp \in {None, Some(<<"/", "/home">>)} }

DeleteSnapset ==
    \E selection \in CmdSelections :
        MgrStep("delete_snapset", selection,
                delete_snapset(Mgr(snapsets, bootStore), selection))

RollbackSnapset ==
    \E selection \in CmdSelections :
        MgrStep("rollback_snapset", selection,
                rollback_snapset(Mgr(snapsets, bootStore), selection))

NextCreate ==
    \/ CreateSnapset
    \/ DeleteSnapset

SpecCreate == InitMgr /\ [][NextCreate]_vars

\* ---------------------------------------------------------------------------
\* SpecMgr: boot and rollback entries are requested for discovered sets, and
\* sets are deleted and rolled back through the command interface
\* ---------------------------------------------------------------------------

\* A uuid no snapshot set has.
NilUuid == uuid5("nil", "00000000-0000-0000-0000-000000000000")

EntryNames == {None, Some("a"), Some("b")}

EntryUuids == {None, Some(set_uuid("a", 1)), Some(NilUuid)}

StoreOutcomes == {"ok", "OSError"}

CreateBootEntry ==
    \E name \in EntryNames, uuid \in EntryUuids, oc \in StoreOutcomes :
        MgrStep("create_snapshot_set_boot_entry", [name |-> name, uuid |-> uuid],
                create_snapshot_set_boot_entry(Mgr(snapsets, bootStore),
                                               name, uuid, oc))

CreateRollbackEntry ==
    \E name \in EntryNames, uuid \in EntryUuids, oc \in StoreOutcomes :
        MgrStep("create_snapshot_set_rollback_entry", [name |-> name, uuid |-> uuid],
                create_snapshot_set_rollback_entry(Mgr(snapsets, bootStore),
                                                   name, uuid, oc))

NextMgr ==
    \/ CreateBootEntry
    \/ CreateRollbackEntry
    \/ DeleteSnapset
    \/ RollbackSnapset

SpecMgr == InitMgr /\ [][NextMgr]_vars

\* ---------------------------------------------------------------------------
\* SpecFind: the discovered sets are queried with Selections over the
\* set-level fields, and deleted
\* ---------------------------------------------------------------------------

\* The Selections find_snapshot_sets is given: every combination of set and
\* unset set-level fields, with values some set has and values none has.
FindSelections ==
    { [Selection(n, u) EXCEPT !.timestamp = t, !.nr_snapshots = nr,
                              !.mount_points = mps] :
        n \in {None, Some("a"), Some("b")},
        u \in {None, Some(set_uuid("a", 1))},
        t \in {None, Some(1), Some(2)},
        nr \in {None, Some(1), Some(2)},
        mps \in {None, Some(<<"/">>), Some(<<"/", "/home">>)} }

\* manager.find_snapshot_sets(selection)
FindSnapshotSets ==
    \E selection \in FindSelections :
        MgrStep("find_snapshot_sets", selection,
                [Mgr(snapsets, bootStore)
                   EXCEPT !.value = find_snapshot_sets(snapsets, selection)])

NextFind ==
    \/ FindSnapshotSets
    \/ DeleteSnapset

SpecFind == InitMgr /\ [][NextFind]_vars

\* ---------------------------------------------------------------------------
\* SpecObj: SnapshotSet objects are constructed from lists of Snapshot
\* objects, and members are looked up by mount point
\* ---------------------------------------------------------------------------

SnapshotNames == {"s1", "s2"}

Origins == {"/dev/vg/root"}

Providers == {"lvm2"}

\* The Snapshot objects a member list is made of.
SnapshotObjects ==
    { Snapshot_init(n, sn, o, ts, mp, p) :
        n \in SnapshotNames, sn \in {"a"}, o \in Origins, ts \in {1},
        mp \in MountPoints, p \in Providers }

\* The member lists: any list of at most MaxMembers Snapshot objects, two
\* members with one mount point included.
MemberLists ==
    UNION { [1..n -> SnapshotObjects] : n \in 0..MaxMembers }

\* The mount points a lookup asks for: those of the members, and one more.
LookupMountPoints == MountPoints \cup {"/var"}

\* What is kept of the SnapshotSet object constructed before the current one.
Identity(S) ==
    [name |-> S.name, timestamp |-> S.timestamp, uuid |-> S.uuid,
     nr_snapshots |-> SnapshotSet_nr_snapshots(S)]

InitObj ==
    /\ SelIdle
    /\ SetIdle
    /\ MgrIdle
    /\ OtherIdle

\* SnapshotSet(name, timestamp, snapshots)
NewSnapshotSet ==
    \E name \in Names, ts \in Timestamps, members \in MemberLists :
        /\ sset' = Some(SnapshotSet_init(name, ts, members))
        /\ objOp' = [op |-> "SnapshotSet",
                     before |-> IF sset = None THEN None ELSE Some(Identity(sset[1]))]
        /\ UNCHANGED <<twin, selVars, setVars, mgrVars, mainVars, timeVars>>

\* sset.nr_snapshots and sset.mount_points are read
ReadContainer ==
    /\ sset /= None
    /\ objOp' = [op |-> "read",
                 nr_snapshots |-> SnapshotSet_nr_snapshots(sset[1]),
                 mount_points |-> SnapshotSet_mount_points(sset[1])]
    /\ UNCHANGED <<sset, twin, selVars, setVars, mgrVars, mainVars, timeVars>>

\* sset.snapshot_by_mount_point(mount_point)
SnapshotByMountPoint ==
    \E mp \in LookupMountPoints :
        /\ sset /= None
        /\ objOp' = [op |-> "snapshot_by_mount_point", mount_point |-> mp,
                     out |-> snapshot_by_mount_point(sset[1], mp)]
        /\ UNCHANGED <<sset, twin, selVars, setVars, mgrVars, mainVars, timeVars>>

NextObj ==
    \/ NewSnapshotSet
    \/ ReadContainer
    \/ SnapshotByMountPoint

SpecObj == InitObj /\ [][NextObj]_vars

\* ---------------------------------------------------------------------------
\* SpecIdent: one Snapshot instance lives through its mutating methods while
\* other instances are constructed beside it
\* ---------------------------------------------------------------------------

\* The instances constructed beside the live one: every constructor argument
\* varies.
TwinObjects ==
    { Snapshot_init(n, sn, o, ts, mp, p) :
        n \in SnapshotNames, sn \in Names, o \in Origins \cup {"/dev/vg/home"},
        ts \in Timestamps, mp \in MountPoints, p \in Providers \cup {"stratis"} }

InitIdent ==
    /\ SelIdle
    /\ MgrIdle
    /\ MainIdle
    /\ TimeIdle
    /\ sset = None
    /\ twin = None
    /\ \E A \in SnapshotObjects :
          /\ snapshots = <<A>>
          /\ backend = <<NewBackend(A.name, "ACTIVE", FALSE)>>
          /\ objOp = [op |-> "Snapshot", name |-> A.name, uuid |-> A.uuid]
    /\ cache = <<None>>
    /\ lastOp = NoCall

\* Snapshot(name, snapset_name, origin, timestamp, mount_point, provider):
\* a further instance is constructed.
NewTwin ==
    /\ \E B \in TwinObjects : twin' = Some(B)
    /\ UNCHANGED <<sset, objOp, selVars, setVars, mgrVars, mainVars, timeVars>>

NextIdent ==
    \/ NewTwin
    \/ Delete
    \/ Rename
    \/ Rollback
    \/ Activate
    \/ Deactivate
    \/ SetAutoactivate

SpecIdent == InitIdent /\ [][NextIdent]_vars

\* ---------------------------------------------------------------------------
\* SpecMain: main is run again and again in one process, on one snapshot set
\* name and on the snapshots of a set
\* ---------------------------------------------------------------------------

\* The --debug arguments, each the list of its comma-separated names.
DebugArgs == {None, Some(<<"all">>), Some(<<"manager", "bogus">>)}

\* What constructing the Manager can end with.
ManagerOutcomes == {"ok", "SnapmNoProviderError", "OSError", "KeyboardInterrupt"}

\* What printing a report can end with.
PrintOutcomes == {"ok", "ValueError", "SnapmCalloutError"}

\* The Selections of the snapshot-level commands.
SnapshotSelections ==
    { [Selection(None, None) EXCEPT !.mount_point = mp] :
        mp \in {None, Some("/"), Some("/var")} }

\* The Selections of the set-level commands.
SetSelections == { Selection(n, None) : n \in {None, Some("a")} }

\* cmd_args as the parser leaves them; a field a command does not define
\* holds a default.
CmdArgs(debug, func) ==
    [debug |-> debug, func |-> func, snapset_name |-> "a",
     mount_points |-> <<"/", "/home">>, bootable |-> FALSE, rollback |-> FALSE,
     select |-> Selection(None, None), yes |-> FALSE]

\* The outcomes of the calls a run of main makes outside command.py, "ok"
\* for all of them.
AllOk ==
    [manager |-> "ok", ts |-> 1,
     ocs |-> [create |-> "ok", activate |-> "ok", boot |-> "ok", rollback |-> "ok"],
     provider |-> [i \in 1..Len(snapshots) |-> "ok"], print |-> "ok"]

InitMain ==
    /\ SelIdle
    /\ MgrIdle
    /\ OtherIdle
    /\ snapshots = << [name |-> SnapName(1), mount_point |-> "/"],
                      [name |-> SnapName(2), mount_point |-> "/home"] >>
    /\ backend = [i \in DOMAIN snapshots |-> NewBackend(SnapName(i), "INACTIVE", FALSE)]
    /\ cache = [i \in DOMAIN snapshots |-> None]
    /\ lastOp = NoCall

\* The state after main ran with cmd_args in the environment env.
MainStep(cmd_args, env) ==
    \E r \in {main(debugMask, Mgr(snapsets, bootStore), World(backend, cache),
                  snapshots, cmd_args, env)} :
    /\ debugMask' = r.mask
    /\ snapsets' = r.m.snapsets
    /\ bootStore' = r.m.bootStore
    /\ backend' = r.w.backend
    /\ cache' = r.w.cache
    /\ mainOp' = [op |-> "main", debug |-> cmd_args.debug, func |-> cmd_args.func,
                  returned |-> r.returned, raised |-> r.raised,
                  stage |-> r.stage, note |-> r.note]
    /\ UNCHANGED <<snapshots, lastOp, mgrOp, selVars, objVars, timeVars>>

\* snapm [--debug ...] with no subcommand
MainNoCommand ==
    \E debug \in DebugArgs : MainStep(CmdArgs(debug, "none"), AllOk)

\* snapm snapset create
MainCreate ==
    \E debug \in DebugArgs, boot \in BOOLEAN, rollback \in BOOLEAN,
       moc \in ManagerOutcomes :
        \E ocs \in CallOutcomes(boot, rollback) :
            /\ moc /= "ok" => \A f \in DOMAIN ocs : ocs[f] = "ok"
            /\ MainStep([CmdArgs(debug, "_create_cmd")
                            EXCEPT !.bootable = boot, !.rollback = rollback],
                        [AllOk EXCEPT !.manager = moc, !.ocs = ocs])

\* snapm snapset delete
MainDelete ==
    \E debug \in DebugArgs, select \in SetSelections :
        MainStep([CmdArgs(debug, "_delete_cmd") EXCEPT !.select = select], AllOk)

\* snapm snapset list
MainList ==
    \E debug \in DebugArgs, poc \in PrintOutcomes :
        MainStep(CmdArgs(debug, "_list_cmd"), [AllOk EXCEPT !.print = poc])

\* snapm snapshot activate | deactivate | autoactivate
MainSnapshotCommand ==
    \E debug \in DebugArgs, select \in SnapshotSelections, yes \in BOOLEAN,
       func \in {"_activate_snapshot_cmd", "_deactivate_snapshot_cmd",
                 "_autoactivate_snapshot_cmd"},
       pocs \in [1..Len(snapshots) -> ProviderOutcomes] :
        /\ yes => func = "_autoactivate_snapshot_cmd"
        /\ MainStep([CmdArgs(debug, func) EXCEPT !.select = select, !.yes = yes],
                    [AllOk EXCEPT !.provider = pocs])

NextMain ==
    \/ MainNoCommand
    \/ MainCreate
    \/ MainDelete
    \/ MainList
    \/ MainSnapshotCommand

SpecMain == InitMain /\ [][NextMain]_vars

\* ---------------------------------------------------------------------------
\* SpecDebug: the debug mask is set directly, from --debug arguments, and by
\* main
\* ---------------------------------------------------------------------------

\* The names a --debug argument lists.
DebugOptionNames == {"manager", "command", "plugins", "report", "all", "bogus"}

\* The --debug arguments: absent, empty, and lists of one or two names.
DebugArgLists ==
    {None, Some(<<"">>)}
        \cup { Some(<<a>>) : a \in DebugOptionNames }
        \cup { Some(<<a, b>>) : a \in DebugOptionNames, b \in DebugOptionNames }

\* The masks set_debug_mask is called with.
MaskArgs == (0 - 2)..(SNAPM_DEBUG_ALL + 2)

InitDebug ==
    /\ SelIdle
    /\ SetIdle
    /\ MgrIdle
    /\ ObjIdle
    /\ MainIdle
    /\ TimeIdle

\* The state after a call `op`(arg) on the debug mask left r.
DebugStep(op, arg, r) ==
    /\ debugMask' = r.mask
    /\ mainOp' = [op |-> op, arg |-> arg, before |-> debugMask,
                  raised |-> r.raised, returned |-> r.returned, stage |-> r.stage]
    /\ UNCHANGED <<selVars, setVars, mgrVars, objVars, timeVars>>

\* snapm.set_debug_mask(mask); get_debug_mask() returns debugMask.
SetDebugMask ==
    \E mask \in MaskArgs :
      \E r \in {set_debug_mask(debugMask, mask)} :
        DebugStep("set_debug_mask", mask,
                  [mask |-> r.mask, raised |-> r.raised, returned |-> None,
                   stage |-> "none"])

\* set_debug(debug_arg)
SetDebug ==
    \E debug_arg \in DebugArgLists :
      \E r \in {set_debug(debugMask, debug_arg)} :
        DebugStep("set_debug", debug_arg,
                  [mask |-> r.mask, raised |-> r.raised, returned |-> None,
                   stage |-> "none"])

\* snapm --debug=... snapset list
DebugMain ==
    \E debug_arg \in DebugArgLists :
        DebugStep("main", debug_arg,
                  main(debugMask, Mgr({}, {}), World(<<>>, <<>>), <<>>,
                       CmdArgs(debug_arg, "_list_cmd"), AllOk))

NextDebug ==
    \/ SetDebugMask
    \/ SetDebug
    \/ DebugMain

SpecDebug == InitDebug /\ [][NextDebug]_vars

\* ---------------------------------------------------------------------------
\* SpecTime: sets are created member by member while the clock advances,
\* deleted, and rediscovered from the backends' catalog
\* ---------------------------------------------------------------------------

MaxClock == 3

\* The mount point lists sets are created over.
CreateMountPoints == {<<"/">>, <<"/", "/home">>}

InitTime ==
    /\ SelIdle
    /\ SetIdle
    /\ MgrIdle
    /\ ObjIdle
    /\ MainIdle
    /\ TimeIdle

\* A second passes.
Tick ==
    /\ clock < MaxClock
    /\ clock' = clock + 1
    /\ UNCHANGED <<catalog, held, timeOp, selVars, setVars, mgrVars, objVars, mainVars>>

\* manager.create_snapshot_set(name, mount_points)
TimeCreate ==
    \E name \in Names, mps \in CreateMountPoints :
      \E durs \in [1..Len(mps) -> 0..1], ocs \in [1..Len(mps) -> CreateOutcomes] :
        \E r \in {create_snapshot_set_at(catalog, held, name, mps, clock, durs, ocs)} :
            /\ r.now <= MaxClock
            /\ clock' = r.now
            /\ catalog' = r.catalog
            /\ held' = r.held
            /\ timeOp' = [op |-> "create_snapshot_set", name |-> name,
                          start |-> r.start, raised |-> r.raised,
                          created |-> r.created]
            /\ UNCHANGED <<selVars, setVars, mgrVars, objVars, mainVars>>

\* manager.discover_snapshot_sets()
TimeDiscover ==
    /\ held' = discover_snapshot_sets(catalog)
    /\ timeOp' = [op |-> "discover_snapshot_sets"]
    /\ UNCHANGED <<clock, catalog, selVars, setVars, mgrVars, objVars, mainVars>>

\* manager.delete_snapshot_sets(Selection(name=name)): the members of the
\* sets of that name are deleted at the backends.
TimeDelete ==
    \E name \in Names :
        /\ \E s \in catalog : s.snapset_name = name
        /\ catalog' = { s \in catalog : s.snapset_name /= name }
        /\ held' = { S \in held : S.name /= name }
        /\ timeOp' = [op |-> "delete_snapshot_sets", name |-> name]
        /\ UNCHANGED <<clock, selVars, setVars, mgrVars, objVars, mainVars>>

NextTime ==
    \/ Tick
    \/ TimeCreate
    \/ TimeDiscover
    \/ TimeDelete

SpecTime == InitTime /\ [][NextTime]_vars

\* ---------------------------------------------------------------------------
\* SpecBoot: boot and rollback entries are created for the sets found on the
\* backends, the process is restarted, and the sets are rediscovered
\* ---------------------------------------------------------------------------

\* The snapshots of the set (name, timestamp) as the test fixture creates
\* them: one per mount point, named by format_snapshot_name.
fixture_snapshots(name, timestamp) ==
    { Snapshot_init(format_snapshot_name(origin_of(mp), name, timestamp, mp),
                    name, origin_of(mp), timestamp, mp, "lvm2") :
        mp \in {"/", "/home"} }

\* The backends' catalog holding the sets of `keys`.
CatalogOf(keys) == UNION { fixture_snapshots(key[1], key[2]) : key \in keys }

\* The (name, timestamp) pairs of the sets on the backends.
BootSetKeys == Names \X Timestamps

\* The orders a scan of the boot store can list its records in.
ScanOrders(store) ==
    { q \in [1..Cardinality(store) -> store] : \A e \in store : \E k \in DOMAIN q : q[k] = e }

\* The names and uuids entry requests and deletions are given.
TargetNames == {"a", "a1", "b"}

TargetUuids == {None, Some(NilUuid)} \cup { Some(S.uuid) : S \in held }

InitBootOn(keySets) ==
    /\ SelIdle
    /\ SetIdle
    /\ ObjIdle
    /\ MainIdle
    /\ snapsets = {}
    /\ mgrOp = NoCall
    /\ clock = 1
    /\ timeOp = NoCall
    /\ bootStore = {}
    /\ \E keys \in keySets :
          /\ catalog = CatalogOf(keys)
          /\ held = discover_with_entries(CatalogOf(keys), <<>>)

InitBoot ==
    InitBootOn({ keys \in SUBSET BootSetKeys :
                   Cardinality(keys) >= 1 /\ Cardinality(keys) <= MaxSets })

\* The state after a boot-integration call left r.
BootStep(op, kind, name, uuid, r) ==
    /\ held' = r.held
    /\ bootStore' = r.bootStore
    /\ timeOp' = [op |-> op, kind |-> kind, name |-> name, uuid |-> uuid,
                  raised |-> r.raised, before |-> held, store |-> bootStore]
    /\ UNCHANGED <<clock, snapsets, mgrOp, selVars, setVars, objVars, mainVars>>

\* manager.create_snapshot_set_boot_entry(name=..., uuid=...)
BootCreateBootEntry ==
    \E name \in {None} \cup { Some(n) : n \in TargetNames }, uuid \in TargetUuids,
       oc \in StoreOutcomes :
        /\ name /= None => uuid \in {None, Some(NilUuid)}
        /\ BootStep("create_snapshot_set_boot_entry", "boot", name, uuid,
                    create_set_entry(held, bootStore, "boot",
                                     resolve_snapset(held, name, uuid), oc))
        /\ UNCHANGED catalog

\* manager.create_snapshot_set_rollback_entry(name=..., uuid=...)
BootCreateRollbackEntry ==
    \E name \in {None} \cup { Some(n) : n \in TargetNames }, uuid \in TargetUuids,
       oc \in StoreOutcomes :
        /\ name /= None => uuid \in {None, Some(NilUuid)}
        /\ BootStep("create_snapshot_set_rollback_entry", "rollback", name, uuid,
                    create_set_entry(held, bootStore, "rollback",
                                     resolve_snapset(held, name, uuid), oc))
        /\ UNCHANGED catalog

\* The process ends: the sets held in memory are gone, the backends'
\* snapshots and the boot store stay.
BootRestart ==
    /\ held /= {}
    /\ BootStep("restart", None, None, None,
                [held |-> {}, bootStore |-> bootStore, raised |-> "no"])
    /\ UNCHANGED catalog

\* manager.discover_snapshot_sets()
BootDiscover ==
    \E scan \in ScanOrders(bootStore) :
        /\ BootStep("discover_snapshot_sets", None, None, None,
                    [held |-> discover_with_entries(catalog, scan),
                     bootStore |-> bootStore, raised |-> "no"])
        /\ UNCHANGED catalog

\* manager.delete_snapshot_sets(Selection(name=name))
BootDelete ==
    \E name \in TargetNames :
      \E r \in {delete_sets_and_entries(catalog, held, bootStore,
                                        Selection(Some(name), None))} :
        /\ r.held /= held
        /\ catalog' = r.catalog
        /\ BootStep("delete_snapshot_sets", None, Some(name), None,
                    [held |-> r.held, bootStore |-> r.bootStore, raised |-> "no"])

NextBoot ==
    \/ BootCreateBootEntry
    \/ BootCreateRollbackEntry
    \/ BootRestart
    \/ BootDiscover
    \/ BootDelete

SpecBoot == InitBoot /\ [][NextBoot]_vars

\* ---------------------------------------------------------------------------
\* SpecKeys: the boot integration on sets whose names end in digits
\* ---------------------------------------------------------------------------

\* (name, timestamp) pairs of sets named "a" and "a1".
DigitSetKeys == {<<"a1", 2>>, <<"a", 12>>, <<"a", 2>>}

InitKeys ==
    InitBootOn({ keys \in SUBSET DigitSetKeys :
                   Cardinality(keys) >= 1 /\ Cardinality(keys) <= MaxSets })

SpecKeys == InitKeys /\ [][NextBoot]_vars

\* ---------------------------------------------------------------------------
\* Properties of SpecSel
\* ---------------------------------------------------------------------------

SetLevelFields == {"name", "uuid", "timestamp", "nr_snapshots", "mount_points"}

SnapshotLevelFields == {"origin", "mount_point", "snapshot_name", "snapshot_uuid"}

\* C10: check_valid_selection(snapshot_set, snapshot) raises an error if and
\* only if some field with a non-None value lies outside the allowed subset
\* (set-level fields are allowed only when snapshot_set is true, snapshot-level
\* fields only when snapshot is true); otherwise it returns None.  In either
\* case the fields of the Selection are what they were before the call.
C10_CheckValidSelection ==
    selResult.op = "check_valid_selection" =>
        LET allowed(a) == \/ a \in SetLevelFields /\ selResult.snapshot_set
                          \/ a \in SnapshotLevelFields /\ selResult.snapshot
            offending == { a \in SetLevelFields \cup SnapshotLevelFields :
                             sel[a] /= None /\ ~allowed(a) }
        IN /\ (selResult.out.raised /= "no") <=> (offending /= {})
           /\ sel = selResult.before

\* C10 witness: a Selection carrying mount_point only, validated as a
\* snapshot-set selection, was rejected.
C10_Witness ==
    /\ selResult.op = "check_valid_selection"
    /\ selResult.snapshot_set /\ ~selResult.snapshot
    /\ sel.mount_point /= None
    /\ \A a \in AttrNames \ {"mount_point"} : sel[a] = None
    /\ selResult.out.raised /= "no"

\* C11 (as stated): when a Selection carries criteria outside the allowed
\* scope, the error check_valid_selection raises is the invalid-identifier
\* error, a variant of SnapmError that a caller catching SnapmError observes.
C11_RaisesInvalidIdentifierError ==
    (selResult.op = "check_valid_selection" /\ selResult.out.raised /= "no") =>
        /\ selResult.out.raised = "SnapmInvalidIdentifierError"
        /\ issubclass(selResult.out.raised, "SnapmError")

\* C11 (amended): when a Selection carries criteria outside the allowed
\* scope, the error check_valid_selection raises is a ValueError; it is an
\* Exception but not a variant of SnapmError, so a caller catching SnapmError
\* does not observe it and a caller catching ValueError does.
C11_RaisesValueError ==
    (selResult.op = "check_valid_selection" /\ selResult.out.raised /= "no") =>
        /\ selResult.out.raised = "ValueError"
        /\ ~issubclass(selResult.out.raised, "SnapmError")
        /\ issubclass(selResult.out.raised, "ValueError")
        /\ issubclass(selResult.out.raised, "Exception")

\* C11 witness: a Selection carrying a snapshot name, validated as a
\* snapshot-set selection, made check_valid_selection raise.
C11_Witness ==
    /\ selResult.op = "check_valid_selection"
    /\ selResult.snapshot_set /\ ~selResult.snapshot
    /\ sel.snapshot_name /= None
    /\ selResult.out.raised = "ValueError"

\* C12: is_null() returns True if and only if none of the nine fields (name,
\* uuid, timestamp, nr_snapshots, mount_points, origin, mount_point,
\* snapshot_name, snapshot_uuid) is set, for every combination of set and
\* unset fields.
C12_IsNullIffNoFieldSet ==
    selResult.op = "is_null" =>
        /\ selResult.value
              <=> (\A a \in SetLevelFields \cup SnapshotLevelFields : sel[a] = None)
        /\ sel = selResult.before

\* C12 witness: is_null() answered False for a Selection whose only set field
\* is the snapshot-level snapshot_uuid.
C12_Witness ==
    /\ selResult.op = "is_null"
    /\ sel.snapshot_uuid /= None
    /\ \A a \in AttrNames \ {"snapshot_uuid"} : sel[a] = None
    /\ ~selResult.value

\* C13: is_single() returns True if and only if name or uuid is set, whatever
\* the other seven fields hold: it is True for Selection(uuid=U) and False
\* for Selection(mount_points=["/x"]) and for a Selection that carries
\* snapshot-level fields only.
C13_IsSingleIffNameOrUuid ==
    selResult.op = "is_single" =>
        /\ selResult.value <=> (sel.name /= None \/ sel.uuid /= None)
        /\ (sel.uuid /= None /\ \A a \in AttrNames \ {"uuid"} : sel[a] = None)
              => selResult.value
        /\ (sel.mount_points = Some(<<"/x">>)
              /\ \A a \in AttrNames \ {"mount_points"} : sel[a] = None)
              => ~selResult.value
        /\ (\A a \in SetLevelFields : sel[a] = None) => ~selResult.value

\* C13 witness: is_single() answered True for Selection(uuid=U), every other
\* field being unset.
C13_Witness ==
    /\ selResult.op = "is_single"
    /\ sel.uuid /= None
    /\ \A a \in AttrNames \ {"uuid"} : sel[a] = None
    /\ selResult.value

\* ---------------------------------------------------------------------------
\* Properties of SpecArgs
\* ---------------------------------------------------------------------------

\* An argument was given: it is neither None nor the empty string.
Given(v) == v /= None /\ v /= Some(<<>>)

\* The argument strings of ParsedArgs that are UUIDs.
UuidTexts == {Some(NilUuidText), Some(BareUuidText)}

\* C24: Selection.from_cmd_args resolves the set identifier with a fixed
\* precedence and never sets both name and uuid: a positional identifier wins
\* over --name and --uuid and becomes uuid if it parses as a UUID, else name;
\* without an identifier --name wins over --uuid; a --uuid that is not a
\* valid UUID raises SnapmInvalidIdentifierError only when neither an
\* identifier nor a --name is given, and is ignored otherwise; only name,
\* uuid, snapshot_name and snapshot_uuid can be set on the result.
C24_FromCmdArgsPrecedence ==
    selResult.op = "from_cmd_args" =>
        LET a == selResult.args
            uuid_used == ~Given(a.identifier) /\ ~Given(a.name) /\ Given(a.uuid)
        IN
        /\ selResult.raised = "SnapmInvalidIdentifierError"
              <=> (uuid_used /\ a.uuid \notin UuidTexts)
        /\ selResult.raised \in {"no", "SnapmInvalidIdentifierError"}
        /\ selResult.raised = "no" =>
              /\ ~(sel.name /= None /\ sel.uuid /= None)
              /\ Given(a.identifier) =>
                    IF a.identifier \in UuidTexts
                    THEN sel.uuid = a.identifier /\ sel.name = None
                    ELSE sel.name = a.identifier /\ sel.uuid = None
              /\ (~Given(a.identifier) /\ Given(a.name)) =>
                    sel.name = a.name /\ sel.uuid = None
              /\ uuid_used => sel.uuid = a.uuid /\ sel.name = None
              /\ (~Given(a.identifier) /\ ~Given(a.name) /\ ~Given(a.uuid)) =>
                    sel.name = None /\ sel.uuid = None
              /\ \A f \in AttrNames \ {"name", "uuid", "snapshot_name", "snapshot_uuid"} :
                    sel[f] = None

\* C24 witness: --name and an invalid --uuid were given together without an
\* identifier; the name was taken and the --uuid was ignored without error.
C24_Witness ==
    /\ selResult.op = "from_cmd_args"
    /\ selResult.args.identifier = None
    /\ selResult.args.name = Some(NameText)
    /\ selResult.args.uuid = Some(NonHexText)
    /\ selResult.raised = "no"
    /\ sel.name = Some(NameText)
    /\ sel.uuid = None

\* ---------------------------------------------------------------------------
\* Properties of SpecSet
\* ---------------------------------------------------------------------------

\* C1: in every reachable state the set's status is INVALID if at least one
\* member reports INVALID, otherwise INACTIVE if at least one member reports
\* INACTIVE, otherwise ACTIVE; and it is the same for every order of the members.
C1_StatusWorstCaseWins ==
    LET n == Len(snapshots)
        reports(st) == \E i \in 1..n : Snapshot_status(backend, cache, i) = st
        expected == IF reports("INVALID") THEN "INVALID"
                    ELSE IF reports("INACTIVE") THEN "INACTIVE"
                    ELSE "ACTIVE"
    IN /\ SnapshotSet_status(member_statuses) = expected
       /\ \A p \in Permutations(1..n) :
              SnapshotSet_status([i \in 1..n |-> member_statuses[p[i]]]) = expected

\* C1 witness: after an invalidation event the set holds an INACTIVE member
\* followed by an INVALID one, and reports INVALID.
C1_Witness ==
    /\ lastOp.op = "invalidation"
    /\ Len(snapshots) >= 2
    /\ Snapshot_status(backend, cache, 1) = "INACTIVE"
    /\ Snapshot_status(backend, cache, 2) = "INVALID"
    /\ SnapshotSet_status(member_statuses) = "INVALID"

\* The provider calls of the last operation, in the order they were made.
SetAutoCalls == SelectSeq(lastOp.events, LAMBDA e : e.fn = "set_autoactivate")

\* C5: assigning SnapshotSet.autoactivate = v calls set_autoactivate(auto=v)
\* on every member exactly once, in set order; a failure of one member's
\* provider call does not abort the fan-out: every member whose own call
\* succeeded holds v, and the assignment does not raise.
C5_SetterFanOut ==
    lastOp.op = "autoactivate.setter" =>
        /\ Len(SetAutoCalls) = Len(snapshots)
        /\ \A k \in 1..Len(SetAutoCalls) :
              /\ SetAutoCalls[k].member = k
              /\ SetAutoCalls[k].arg = lastOp.arg
              /\ SetAutoCalls[k].out = "ok" => backend[k].autoactivate = lastOp.arg
        /\ lastOp.raised = "no"

\* C5 witness: the first member's provider call failed and the second member,
\* which held the other value, was updated all the same.
C5_Witness ==
    /\ lastOp.op = "autoactivate.setter"
    /\ Len(snapshots) >= 2
    /\ SetAutoCalls[1].out /= "ok"
    /\ SetAutoCalls[2].out = "ok"
    /\ lastOp.before[2].autoactivate /= lastOp.arg
    /\ backend[2].autoactivate = lastOp.arg

\* The last operation assigned True to the set, and the provider call failed
\* for a member that held False.
PartialFailureOfTrue ==
    /\ lastOp.op = "autoactivate.setter"
    /\ lastOp.arg = TRUE
    /\ \E k \in 1..Len(SetAutoCalls) :
          /\ SetAutoCalls[k].out /= "ok"
          /\ ~lastOp.before[SetAutoCalls[k].member].autoactivate

\* C6: SnapshotSet.autoactivate reads True if and only if every member
\* reports autoactivate True; in particular it reads False after a partially
\* failed assignment of True over members that held False.
C6_AutoactivateIsAnd ==
    /\ SnapshotSet_autoactivate(member_autos)
          <=> \A i \in 1..Len(snapshots) : Snapshot_autoactivate(backend, cache, i)
    /\ PartialFailureOfTrue => ~SnapshotSet_autoactivate(member_autos)

\* C6 witness: an assignment of True failed for one member that held False
\* and updated another member from False to True; the set reads False.
C6_Witness ==
    /\ PartialFailureOfTrue
    /\ \E k \in 1..Len(snapshots) :
          ~lastOp.before[k].autoactivate /\ backend[k].autoactivate
    /\ ~SnapshotSet_autoactivate(member_autos)

\* C30: a SnapshotSet with zero member snapshots reports status ACTIVE and
\* autoactivate True, nr_snapshots 0 and an empty mount_points list, and
\* assigning its autoactivate makes no provider call; so a set status of
\* ACTIVE does not imply that an active snapshot exists.
C30_EmptySet ==
    snapshots = <<>> =>
        /\ SnapshotSet_status(member_statuses) = "ACTIVE"
        /\ SnapshotSet_autoactivate(member_autos) = TRUE
        /\ SnapshotSet_nr_snapshots([snapshots |-> snapshots]) = 0
        /\ SnapshotSet_mount_points([snapshots |-> snapshots]) = <<>>
        /\ ~\E i \in 1..Len(snapshots) :
               Snapshot_status(backend, cache, i) = "ACTIVE"
        /\ lastOp.op = "autoactivate.setter" =>
               /\ lastOp.events = <<>>
               /\ lastOp.raised = "no"
               /\ backend = lastOp.before

\* C30 witness: an empty set after an assignment of its autoactivate: ACTIVE,
\* with no snapshot in it and no provider call made.
C30_Witness ==
    /\ snapshots = <<>>
    /\ lastOp.op = "autoactivate.setter"
    /\ lastOp.events = <<>>
    /\ SnapshotSet_status(member_statuses) = "ACTIVE"
    /\ SnapshotSet_autoactivate(member_autos)

\* ---------------------------------------------------------------------------
\* Properties of SpecSnap
\* ---------------------------------------------------------------------------

MutatingMethods ==
    {"delete", "rename", "rollback", "activate", "deactivate", "set_autoactivate"}

\* C7: after each of delete, rename, rollback, activate, deactivate and
\* set_autoactivate completes, the snapshot's cached backend state has been
\* invalidated.
C7_InvalidateAfterEveryMutation ==
    (lastOp.op \in MutatingMethods /\ lastOp.raised = "no")
        => cache[lastOp.member] = None

\* The provider function each invalidating Snapshot method calls.
InvalidatingMethods == {"activate", "deactivate", "set_autoactivate"}

ProviderFnOf(method) ==
    CASE method = "activate" -> "activate_snapshot"
      [] method = "deactivate" -> "deactivate_snapshot"
      [] method = "set_autoactivate" -> "set_autoactivate"

\* The positions of the calls of `fn` in the last method's log.
EventsOf(fn) == { k \in 1..Len(lastOp.events) : lastOp.events[k].fn = fn }

\* C29: in Snapshot.activate, Snapshot.deactivate and
\* Snapshot.set_autoactivate the provider call precedes invalidate_cache,
\* there is exactly one provider call and at most one invalidate_cache per
\* invocation, and invalidate_cache is performed only if the provider call
\* returned normally: when it raises, the error propagates and the cache is
\* not invalidated.
C29_ProviderCallThenInvalidate ==
    lastOp.op \in InvalidatingMethods =>
        /\ EventsOf(ProviderFnOf(lastOp.op)) = {1}
        /\ lastOp.events[1].member = lastOp.member
        /\ EventsOf("invalidate_cache") \subseteq {2}
        /\ DOMAIN lastOp.events
              = EventsOf(ProviderFnOf(lastOp.op)) \cup EventsOf("invalidate_cache")
        /\ EventsOf("invalidate_cache") /= {} <=> lastOp.events[1].out = "ok"
        /\ lastOp.events[1].out = "ok" =>
              /\ lastOp.raised = "no"
              /\ lastOp.events[2].member = lastOp.member
              /\ cache[lastOp.member] = None
        /\ lastOp.events[1].out /= "ok" =>
              /\ lastOp.raised = lastOp.events[1].out
              /\ backend = lastOp.before

\* A deactivate whose provider call raised on a snapshot with cached state:
\* the error propagated and the cached state is still there.
C29_Witness ==
    /\ lastOp.op = "deactivate"
    /\ lastOp.raised = "SnapmCalloutError"
    /\ lastOp.events = <<[fn |-> "deactivate_snapshot", member |-> 1,
                          arg |-> None, out |-> "SnapmCalloutError"]>>
    /\ cache[1] /= None

\* ---------------------------------------------------------------------------
\* Properties of SpecCreate
\* ---------------------------------------------------------------------------

\* How the Manager call `fn` of the last command ended; "none" when the
\* command did not make it.
CallOut(fn) ==
    IF \E k \in 1..Len(mgrOp.calls) : mgrOp.calls[k].fn = fn
    THEN mgrOp.calls[CHOOSE k \in 1..Len(mgrOp.calls) : mgrOp.calls[k].fn = fn].out
    ELSE "none"

\* The position of the first call of `fn` in the last command; 0 when the
\* command did not make it.
CallPos(fn) ==
    IF \E k \in 1..Len(mgrOp.calls) : mgrOp.calls[k].fn = fn
    THEN CHOOSE k \in 1..Len(mgrOp.calls) :
            /\ mgrOp.calls[k].fn = fn
            /\ \A j \in 1..(k - 1) : mgrOp.calls[j].fn /= fn
    ELSE 0

\* The sets that carry the name the last create_snapset was given.
NamedSets == { s \in snapsets : s.name = mgrOp.args.name }

HasEntry(s, kind) == [uuid |-> set_uuid(s.name, s.timestamp), kind |-> kind] \in bootStore

\* C2: in create_snapset(..., boot=True), if create_snapshot_set succeeds and
\* the boot entry attachment then fails, whatever the failure,
\* delete_snapshot_sets is invoked for the set's name before create_snapset
\* finishes, and a find_snapshot_sets for that name returns nothing.
C2_DeleteOnAnyAttachFailure ==
    ( /\ mgrOp.op = "create_snapset"
      /\ mgrOp.args.boot
      /\ CallOut("create_snapshot_set") = "ok"
      /\ CallOut("create_snapshot_set_boot_entry") \notin {"none", "ok"} )
    => /\ \E k \in 1..Len(mgrOp.calls) :
             /\ mgrOp.calls[k].fn = "delete_snapshot_sets"
             /\ mgrOp.calls[k].arg = Selection(Some(mgrOp.args.name), None)
       /\ find_snapshot_sets(snapsets, Selection(Some(mgrOp.args.name), None)) = {}

\* C3: in no terminal state of a create_snapset that created the set's
\* snapshots does the set exist while a boot or rollback entry the caller
\* asked for is missing.
C3_NoSetWithoutRequestedEntry ==
    ( /\ mgrOp.op = "create_snapset"
      /\ CallOut("create_snapshot_set") = "ok" )
    => \A s \in NamedSets :
          /\ mgrOp.args.boot => HasEntry(s, "boot")
          /\ mgrOp.args.rollback => HasEntry(s, "rollback")

EntryCalls == {"create_snapshot_set_boot_entry", "create_snapshot_set_rollback_entry"}

\* C4: in create_snapset, whenever boot or rollback is requested (and the set
\* was created), activate_snapshot_sets(Selection(name=set name)) is called
\* after create_snapshot_set, and every call that creates a boot or rollback
\* entry comes strictly after that activation call.
C4_ActivateBeforeEntries ==
    mgrOp.op = "create_snapset" =>
        /\ ( /\ mgrOp.args.boot \/ mgrOp.args.rollback
             /\ CallOut("create_snapshot_set") = "ok" )
           => /\ CallPos("activate_snapshot_sets") > CallPos("create_snapshot_set")
              /\ mgrOp.calls[CallPos("activate_snapshot_sets")].arg
                    = Selection(Some(mgrOp.args.name), None)
        /\ \A k \in 1..Len(mgrOp.calls) :
              mgrOp.calls[k].fn \in EntryCalls
                 => /\ CallPos("activate_snapshot_sets") > 0
                    /\ CallPos("activate_snapshot_sets") < k
                    /\ CallPos("create_snapshot_set") < CallPos("activate_snapshot_sets")

\* C4 witness: a create_snapset with rollback only that got as far as asking
\* for the rollback entry.
C4_Witness ==
    /\ mgrOp.op = "create_snapset"
    /\ ~mgrOp.args.boot /\ mgrOp.args.rollback
    /\ CallOut("create_snapshot_set_rollback_entry") = "ok"
    /\ mgrOp.raised = "no"
    /\ \E s \in NamedSets : s.active /\ HasEntry(s, "rollback")

\* The Manager calls of the last command that were calls of `fn`.
CallsOf(fn) == SelectSeq(mgrOp.calls, LAMBDA c : c.fn = fn)

\* C23: in create_snapset(boot=True, rollback=True), if the boot entry is
\* created and the creation of the rollback entry then fails,
\* delete_snapshot_sets is called for the set, the boot entry just created
\* is gone with it, and create_snapset returns None; create_snapset returns
\* the created set only if every requested entry was created; and when
\* neither boot nor rollback is requested it makes no activate, entry
\* creation or delete call.
C23_RollbackFailureUnwinds ==
    mgrOp.op = "create_snapset" =>
        /\ ( /\ mgrOp.args.boot /\ mgrOp.args.rollback
             /\ CallOut("create_snapshot_set_boot_entry") = "ok"
             /\ CallOut("create_snapshot_set_rollback_entry") \notin {"none", "ok"} )
           => /\ Len(CallsOf("delete_snapshot_sets")) = 1
              /\ CallsOf("delete_snapshot_sets")[1].arg
                    = Selection(Some(mgrOp.args.name), None)
              /\ NamedSets = {}
              /\ bootStore = mgrOp.before.bootStore
              /\ mgrOp.raised = "no"
              /\ mgrOp.value = None
        /\ (mgrOp.raised = "no" /\ mgrOp.value /= None)
           => \A s \in NamedSets :
                 /\ mgrOp.args.boot => HasEntry(s, "boot")
                 /\ mgrOp.args.rollback => HasEntry(s, "rollback")
        /\ (~mgrOp.args.boot /\ ~mgrOp.args.rollback)
           => \A k \in 1..Len(mgrOp.calls) :
                 mgrOp.calls[k].fn = "create_snapshot_set"

\* ---------------------------------------------------------------------------
\* Properties of SpecCmd
\* ---------------------------------------------------------------------------

SnapshotCmds ==
    {"_activate_snapshot_cmd", "_deactivate_snapshot_cmd", "_autoactivate_snapshot_cmd"}

\* The provider calls of the last command, in the order they were made.
ProviderCalls == SelectSeq(lastOp.events, LAMBDA e : e.fn /= "invalidate_cache")

\* The provider call a snapshot command makes on a snapshot.
ProviderFn(func) ==
    CASE func = "_activate_snapshot_cmd" -> "activate_snapshot"
      [] func = "_deactivate_snapshot_cmd" -> "deactivate_snapshot"
      [] func = "_autoactivate_snapshot_cmd" -> "set_autoactivate"

\* C25: the snapshot-level commands return 1 without any provider call when
\* find_snapshots returns no match; otherwise they apply the operation to the
\* matched snapshots one at a time in result order, and return 0 only if
\* every matched snapshot was operated on exactly once: a failure on one
\* snapshot stops the loop, later matches are left untouched and earlier ones
\* stay modified.
C25_SnapshotCommands ==
    lastOp.op \in SnapshotCmds =>
        LET found == lastOp.found
            n == Len(ProviderCalls)
            fn == ProviderFn(lastOp.op)
        IN
        /\ found = <<>> => /\ lastOp.status = Some(1)
                           /\ lastOp.events = <<>>
                           /\ backend = lastOp.before
        /\ found /= <<>> =>
              /\ n >= 1 /\ n <= Len(found)
              /\ \A k \in 1..n : /\ ProviderCalls[k].member = found[k]
                                 /\ ProviderCalls[k].fn = fn
              /\ \A k \in 1..(n - 1) : ProviderCalls[k].out = "ok"
              /\ lastOp.status = Some(0) =>
                    /\ n = Len(found)
                    /\ \A k \in 1..n : ProviderCalls[k].out = "ok"
              /\ ProviderCalls[n].out /= "ok" =>
                    /\ lastOp.raised = ProviderCalls[n].out
                    /\ lastOp.status = None
                    /\ \A k \in n..Len(found) :
                          backend[found[k]] = lastOp.before[found[k]]
              /\ \A k \in 1..n :
                    ProviderCalls[k].out = "ok" =>
                        backend[found[k]]
                            = provider_effect(lastOp.before[found[k]], fn,
                                              ProviderCalls[k].arg)

\* C25 witness: an activate command found two inactive snapshots, activated
\* the first and failed on the second, which stayed inactive.
C25_Witness ==
    /\ lastOp.op = "_activate_snapshot_cmd"
    /\ Len(lastOp.found) = 2
    /\ lastOp.before[lastOp.found[1]].status = "INACTIVE"
    /\ lastOp.before[lastOp.found[2]].status = "INACTIVE"
    /\ backend[lastOp.found[1]].status = "ACTIVE"
    /\ backend[lastOp.found[2]].status = "INACTIVE"
    /\ Len(ProviderCalls) = 2
    /\ lastOp.raised /= "no"

\* C27: the snapset and snapshot autoactivate commands enable autoactivation
\* if and only if --yes is given: --no alone and no flag at all both request
\* auto=False, both flags together request auto=True, and one value is used
\* for every set_autoactivate call of an invocation.
C27_AutoactivateFlags ==
    lastOp.op \in {"_autoactivate_cmd", "_autoactivate_snapshot_cmd"} =>
        /\ \A k \in 1..Len(ProviderCalls) :
              /\ ProviderCalls[k].fn = "set_autoactivate"
              /\ ProviderCalls[k].arg = ("--yes" \in lastOp.flags)
        /\ \A i \in 1..Len(backend) :
              (\E k \in 1..Len(ProviderCalls) :
                  ProviderCalls[k].member = i /\ ProviderCalls[k].out = "ok")
                 => backend[i].autoactivate = ("--yes" \in lastOp.flags)

\* C27 witness: snapshot autoactivate without any flag ran on a snapshot that
\* had autoactivation enabled, and disabled it.
C27_Witness ==
    /\ lastOp.op = "_autoactivate_snapshot_cmd"
    /\ lastOp.flags = {}
    /\ lastOp.found /= <<>>
    /\ lastOp.before[lastOp.found[1]].autoactivate
    /\ ~backend[lastOp.found[1]].autoactivate

\* ---------------------------------------------------------------------------
\* Properties of SpecMgr
\* ---------------------------------------------------------------------------

StateUntouched ==
    /\ snapsets = mgrOp.before.snapsets
    /\ bootStore = mgrOp.before.bootStore

\* C8: delete_snapset and rollback_snapset enforce singularity before calling
\* into the manager: for a Selection whose name and uuid are both unset each
\* raises SnapmInvalidIdentifierError, the manager is never invoked and no set
\* is deleted or rolled back; for a Selection with name or uuid set the
\* manager is called exactly once, with that Selection.
C8_SingularityEnforced ==
    mgrOp.op \in {"delete_snapset", "rollback_snapset"} =>
        IF mgrOp.args.name = None /\ mgrOp.args.uuid = None
        THEN /\ mgrOp.raised = "SnapmInvalidIdentifierError"
             /\ mgrOp.calls = <<>>
             /\ StateUntouched
        ELSE /\ Len(mgrOp.calls) = 1
             /\ mgrOp.calls[1].fn = (IF mgrOp.op = "delete_snapset"
                                     THEN "delete_snapshot_sets"
                                     ELSE "rollback_snapshot_sets")
             /\ mgrOp.calls[1].arg = mgrOp.args

\* C8 witness: a delete by mount points alone, which would have matched a
\* set, was refused.
C8_Witness ==
    /\ mgrOp.op = "delete_snapset"
    /\ mgrOp.args.name = None /\ mgrOp.args.uuid = None
    /\ mgrOp.args.mount_points /= None
    /\ find_snapshot_sets(snapsets, mgrOp.args) /= {}
    /\ mgrOp.raised = "SnapmInvalidIdentifierError"

\* The sets an entry request names: by name when one is given, else by uuid.
EntryTarget ==
    IF mgrOp.args.name /= None
    THEN { s \in mgrOp.before.snapsets : s.name = mgrOp.args.name[1] }
    ELSE IF mgrOp.args.uuid /= None
    THEN { s \in mgrOp.before.snapsets :
             set_uuid(s.name, s.timestamp) = mgrOp.args.uuid[1] }
    ELSE {}

\* C9: create_snapshot_set_boot_entry(name, uuid) and
\* create_snapshot_set_rollback_entry(name, uuid) fail with SnapmNotFoundError
\* whenever the target does not resolve to exactly one set: when neither name
\* nor uuid is given, when zero sets match and when more than one matches; then
\* no entry is created and no set changes.
C9_EntryRequiresOneSet ==
    ( /\ mgrOp.op \in EntryCalls
      /\ \/ mgrOp.args.name = None /\ mgrOp.args.uuid = None
         \/ Cardinality(EntryTarget) /= 1 )
    => /\ mgrOp.raised = "SnapmNotFoundError"
       /\ StateUntouched

\* C9 witness: a boot entry was requested by a name two sets carry, and the
\* request failed with SnapmNotFoundError.
C9_Witness ==
    /\ mgrOp.op = "create_snapshot_set_boot_entry"
    /\ mgrOp.args.name /= None
    /\ Cardinality(EntryTarget) = 2
    /\ mgrOp.raised = "SnapmNotFoundError"

\* ---------------------------------------------------------------------------
\* Properties of SpecObj
\* ---------------------------------------------------------------------------

\* C14: two SnapshotSet objects constructed with the same (name, timestamp)
\* have the same uuid, whatever their member lists; and for one name, two
\* different timestamps give different uuids (the hash being injective on
\* its input string).
C14_SetIdentityStable ==
    (objOp.op = "SnapshotSet" /\ objOp.before /= None) =>
        LET P == objOp.before[1]
            S == sset[1]
        IN /\ (P.name = S.name /\ P.timestamp = S.timestamp) => P.uuid = S.uuid
           /\ (P.name = S.name /\ P.timestamp /= S.timestamp) => P.uuid /= S.uuid

\* C14 witness: a set was constructed with the name and timestamp of the set
\* constructed before it, from a member list of another length, and carries
\* the same uuid.
C14_Witness ==
    /\ objOp.op = "SnapshotSet"
    /\ objOp.before /= None
    /\ objOp.before[1].name = sset[1].name
    /\ objOp.before[1].timestamp = sset[1].timestamp
    /\ objOp.before[1].nr_snapshots /= Len(sset[1].snapshots)
    /\ objOp.before[1].uuid = sset[1].uuid

\* C16: for every SnapshotSet, nr_snapshots is the number of member
\* snapshots and mount_points is the sequence of the members' mount points
\* in set order (as long as snapshots, its i-th element the i-th member's
\* mount point), also when two members share a mount point.
C16_ContainerProperties ==
    objOp.op = "read" =>
        LET S == sset[1] IN
        /\ objOp.nr_snapshots = Len(S.snapshots)
        /\ Len(objOp.mount_points) = Len(S.snapshots)
        /\ \A i \in 1..Len(S.snapshots) :
              objOp.mount_points[i] = S.snapshots[i].mount_point

\* C16 witness: the properties were read on a set of two members that share
\* the mount point "/home".
C16_Witness ==
    /\ objOp.op = "read"
    /\ objOp.nr_snapshots = 2
    /\ objOp.mount_points = <<"/home", "/home">>

\* The positions of the members of S mounted at mp.
MembersAt(S, mp) == { i \in 1..Len(S.snapshots) : S.snapshots[i].mount_point = mp }

\* C17: snapshot_by_mount_point(mp) returns a member whose mount_point is mp
\* whenever there is one, and raises SnapmNotFoundError when there is none;
\* when several members of the construction list have the mount point, it
\* returns the last of them in list order, and the index holds at most
\* nr_snapshots entries.
C17_LookupByMountPoint ==
    objOp.op = "snapshot_by_mount_point" =>
        LET S == sset[1]
            at == MembersAt(S, objOp.mount_point)
            last == CHOOSE i \in at : \A j \in at : j <= i
        IN /\ at /= {} => /\ objOp.out.raised = "no"
                          /\ objOp.out.value = Some(S.snapshots[last])
                          /\ objOp.out.value[1].mount_point = objOp.mount_point
           /\ at = {} => /\ objOp.out.raised = "SnapmNotFoundError"
                         /\ objOp.out.value = None
           /\ Cardinality(DOMAIN S.by_mount_point) <= Len(S.snapshots)

\* C17 witness: two different members share the mount point "/", the lookup
\* returned the second of them, and the index holds fewer entries than the
\* set has members.
C17_Witness ==
    /\ objOp.op = "snapshot_by_mount_point"
    /\ objOp.mount_point = "/"
    /\ Len(sset[1].snapshots) = 2
    /\ sset[1].snapshots[1].mount_point = "/"
    /\ sset[1].snapshots[2].mount_point = "/"
    /\ sset[1].snapshots[1] /= sset[1].snapshots[2]
    /\ objOp.out.value = Some(sset[1].snapshots[2])
    /\ Cardinality(DOMAIN sset[1].by_mount_point) < Len(sset[1].snapshots)

\* ---------------------------------------------------------------------------
\* Properties of SpecIdent
\* ---------------------------------------------------------------------------

\* C15: the uuid of a Snapshot is a function of its name alone: two
\* instances constructed with one name have one uuid, also when snapset_name,
\* origin, timestamp, mount_point and provider differ; and the uuid of an
\* instance is the one it was constructed with after any of activate,
\* deactivate, set_autoactivate, rename, rollback and delete.
C15_SnapshotUuidOfName ==
    /\ snapshots[1].uuid = objOp.uuid
    /\ snapshots[1].name = objOp.name
    /\ twin /= None =>
          (twin[1].name = snapshots[1].name => twin[1].uuid = snapshots[1].uuid)

\* C15 witness: the live instance was renamed at the backend, and an instance
\* constructed afterwards with its name, and with every other argument
\* different, has its uuid.
C15_Witness ==
    /\ lastOp.op = "rename"
    /\ lastOp.raised = "no"
    /\ twin /= None
    /\ twin[1].name = snapshots[1].name
    /\ twin[1].snapset_name /= snapshots[1].snapset_name
    /\ twin[1].origin /= snapshots[1].origin
    /\ twin[1].timestamp /= snapshots[1].timestamp
    /\ twin[1].mount_point /= snapshots[1].mount_point
    /\ twin[1].provider /= snapshots[1].provider
    /\ twin[1].uuid = snapshots[1].uuid

\* ---------------------------------------------------------------------------
\* Properties of SpecMain
\* ---------------------------------------------------------------------------

\* The run of main dispatched a handler and the handler raised.
HandlerRaised == mainOp.op = "main" /\ mainOp.stage \in {"caught", "propagated"}

\* C18: in main, when no --debug option is given, every error (every
\* exception that derives from Exception) the dispatched handler raises is
\* caught at the top level and main returns the status 1 instead of
\* propagating it; when --debug is given, an error the handler raises
\* propagates out of main.
C18_TopLevelCatch ==
    HandlerRaised =>
        /\ (~debug_given(mainOp.debug) /\ issubclass(mainOp.note, "Exception"))
              => /\ mainOp.stage = "caught"
                 /\ mainOp.returned = Some(1)
                 /\ mainOp.raised = "no"
        /\ debug_given(mainOp.debug)
              => /\ mainOp.stage = "propagated"
                 /\ mainOp.returned = None
                 /\ mainOp.raised = mainOp.note

\* C18 witness: without --debug, a handler raised an error that is not a
\* Snapm error and main returned 1.
C18_Witness ==
    /\ HandlerRaised
    /\ mainOp.debug = None
    /\ mainOp.note = "OSError"
    /\ mainOp.returned = Some(1)

\* The names set_debug knows.
DebugNames == {"manager", "command", "plugins", "report", "all"}

\* C19: main returns only 0 or 1 when it returns, and without --debug it
\* returns for every error; it returns 1 when no subcommand was selected,
\* when a debug option is unknown, when create_snapset returned None and when
\* a snapshot-level activate, deactivate or autoactivate command matches no
\* snapshot; it returns 0 only if the handler ran to completion.
C19_ExitStatus ==
    mainOp.op = "main" =>
        /\ mainOp.returned /= None => mainOp.returned[1] \in {0, 1}
        /\ (~debug_given(mainOp.debug) /\ mainOp.raised /= "no")
              => ~issubclass(mainOp.raised, "Exception")
        /\ mainOp.func = "none" => mainOp.returned = Some(1)
        /\ (debug_given(mainOp.debug)
              /\ \E k \in 1..Len(mainOp.debug[1]) : mainOp.debug[1][k] \notin DebugNames)
              => mainOp.returned = Some(1)
        /\ mainOp.note = "snapset is None" => mainOp.returned = Some(1)
        /\ (mainOp.func \in {"_activate_snapshot_cmd", "_deactivate_snapshot_cmd",
                              "_autoactivate_snapshot_cmd"}
              /\ mainOp.note = "no match") => mainOp.returned = Some(1)
        /\ mainOp.returned = Some(0)
              => mainOp.stage = "returned" /\ mainOp.note = "done"

\* C19 witness: create_snapset returned None to _create_cmd after a failed
\* boot entry, and main returned 1.
C19_Witness ==
    /\ mainOp.op = "main"
    /\ mainOp.func = "_create_cmd"
    /\ mainOp.note = "snapset is None"
    /\ mainOp.returned = Some(1)

\* ---------------------------------------------------------------------------
\* Properties of SpecTime
\* ---------------------------------------------------------------------------

\* C20: the snapshots one create_snapshot_set call creates carry one
\* timestamp, the time at the start of the call, however long the backend
\* calls take; and every member s of every SnapshotSet S the Manager holds
\* has s.timestamp = S.timestamp and s.snapset_name = S.name.
C20_SharedTimestamp ==
    /\ \A S \in held : \A i \in 1..Len(S.snapshots) :
          /\ S.snapshots[i].timestamp = S.timestamp
          /\ S.snapshots[i].snapset_name = S.name
    /\ timeOp.op = "create_snapshot_set" =>
          \A i \in 1..Len(timeOp.created) :
              /\ timeOp.created[i].timestamp = timeOp.start
              /\ timeOp.created[i].snapset_name = timeOp.name

\* C20 witness: a create_snapshot_set call made two snapshots while the
\* clock advanced during the call, and the Manager holds their set.
C20_Witness ==
    /\ timeOp.op = "create_snapshot_set"
    /\ timeOp.raised = "no"
    /\ Len(timeOp.created) = 2
    /\ clock > timeOp.start
    /\ \E S \in held : S.name = timeOp.name /\ S.snapshots = timeOp.created

\* ---------------------------------------------------------------------------
\* Properties of SpecBoot
\* ---------------------------------------------------------------------------

\* The boot store holds a record of `kind` keyed to the uuid of S.
HasRecord(S, kind) == \E e \in bootStore : e.uuid = S.uuid /\ e.kind = kind

\* C21: after create_snapshot_set_boot_entry and
\* create_snapshot_set_rollback_entry succeeded for a set and
\* discover_snapshot_sets is run again, the rediscovered set has both
\* boot_entry and rollback_entry attached, the boot entry's options reference
\* the devpath of every member, and the rollback entry's options reference
\* the origin of the member mounted at "/".
C21_EntriesRediscovered ==
    timeOp.op = "discover_snapshot_sets" =>
        \A S \in held :
            (HasRecord(S, "boot") /\ HasRecord(S, "rollback")) =>
                /\ S.boot_entry /= None
                /\ S.rollback_entry /= None
                /\ \A i \in DOMAIN S.snapshots :
                      devpath(S.snapshots[i]) \in S.boot_entry[1].options
                /\ snapshot_by_mount_point(S, "/").value[1].origin
                      \in S.rollback_entry[1].options

\* C21 witness: discovery ran in a fresh process (no set was held) and
\* produced a set of two members with both of its records attached.
C21_Witness ==
    /\ timeOp.op = "discover_snapshot_sets"
    /\ timeOp.before = {}
    /\ \E S \in held :
          /\ HasRecord(S, "boot") /\ HasRecord(S, "rollback")
          /\ Len(S.snapshots) = 2
          /\ S.boot_entry /= None /\ S.rollback_entry /= None


\* ---------------------------------------------------------------------------
\* Properties of SpecFind
\* ---------------------------------------------------------------------------

\* The attribute of a candidate set a set-level field of a Selection is
\* compared with.
SetAttribute(s, field) ==
    CASE field = "name" -> s.name
      [] field = "uuid" -> set_uuid(s.name, s.timestamp)
      [] field = "timestamp" -> s.timestamp
      [] field = "nr_snapshots" -> Len(s.mount_points)
      [] field = "mount_points" -> s.mount_points

\* C22: a candidate snapshot set matches a Selection if and only if every
\* set-level field that is set on the Selection equals the candidate's
\* attribute (mount_points by whole-list equality); a Selection with no field
\* set matches every candidate, Selection(name="a") matches no set whose name
\* differs from "a", and find_snapshot_sets returns an empty result, not an
\* error, when nothing matches.
C22_SelectionMatching ==
    mgrOp.op = "find_snapshot_sets" =>
        /\ mgrOp.raised = "no"
        /\ mgrOp.value =
              { s \in snapsets :
                  \A f \in SetLevelFields :
                      mgrOp.args[f] /= None => mgrOp.args[f][1] = SetAttribute(s, f) }
        /\ (\A f \in AttrNames : mgrOp.args[f] = None) => mgrOp.value = snapsets
        /\ mgrOp.args.name = Some("a") => \A s \in mgrOp.value : s.name = "a"

\* C22 witness: a Selection asking for the mount points ["/"] alone found
\* nothing among sets over ["/", "/home"], and no error was raised.
C22_Witness ==
    /\ mgrOp.op = "find_snapshot_sets"
    /\ mgrOp.args.mount_points = Some(<<"/">>)
    /\ \A f \in AttrNames \ {"mount_points"} : mgrOp.args[f] = None
    /\ snapsets /= {}
    /\ mgrOp.value = {}
    /\ mgrOp.raised = "no"


\* ---------------------------------------------------------------------------
\* Properties of SpecDebug
\* ---------------------------------------------------------------------------

\* The names of a --debug argument, none for an absent or empty argument.
NamesOf(debug_arg) ==
    IF debug_arg = None \/ debug_arg = Some(<<"">>) THEN {}
    ELSE { debug_arg[1][k] : k \in DOMAIN debug_arg[1] }

\* The bit each option stands for.
OptionBit == [manager |-> 1, command |-> 2, plugins |-> 4, report |-> 8]

\* The mask in which exactly the bits of the named options are set.
IsMaskOf(mask, names) ==
    \A o \in DOMAIN OptionBit :
        ((mask \div OptionBit[o]) % 2 = 1) <=> (o \in names \/ "all" \in names)

\* C26: the debug mask is always within 0..15: set_debug_mask(mask) with
\* mask < 0 or mask > 15 raises ValueError and leaves the mask unchanged,
\* otherwise get_debug_mask() returns the value set; set_debug(arg) sets the
\* mask to the bitwise OR of the named options; if a name is unknown it
\* raises ValueError without changing the mask, and main then returns 1
\* without dispatching a command; an empty or absent arg leaves the mask
\* unchanged.
C26_DebugMask ==
    /\ debugMask \in 0..15
    /\ mainOp.op = "set_debug_mask" =>
          IF mainOp.arg < 0 \/ mainOp.arg > 15
          THEN mainOp.raised = "ValueError" /\ debugMask = mainOp.before
          ELSE mainOp.raised = "no" /\ debugMask = mainOp.arg
    /\ mainOp.op \in {"set_debug", "main"} =>
          IF NamesOf(mainOp.arg) = {}
          THEN debugMask = mainOp.before /\ mainOp.raised = "no"
          ELSE IF NamesOf(mainOp.arg) \subseteq DOMAIN OptionBit \cup {"all"}
          THEN IsMaskOf(debugMask, NamesOf(mainOp.arg)) /\ mainOp.raised = "no"
          ELSE /\ debugMask = mainOp.before
               /\ mainOp.op = "set_debug" => mainOp.raised = "ValueError"
               /\ mainOp.op = "main" => /\ mainOp.raised = "no"
                                        /\ mainOp.returned = Some(1)
                                        /\ mainOp.stage = "set_debug"

\* C26 witness: with the mask at 15, set_debug was given a known name
\* followed by an unknown one; it raised and the mask is still 15.
C26_Witness ==
    /\ mainOp.op = "set_debug"
    /\ mainOp.arg = Some(<<"manager", "bogus">>)
    /\ mainOp.raised = "ValueError"
    /\ mainOp.before = 15
    /\ debugMask = 15


\* ---------------------------------------------------------------------------
\* Properties of SpecKeys
\* ---------------------------------------------------------------------------

\* The records attached to the set S.
Attached(S) ==
    { e \in bootStore : S.boot_entry = Some(e) \/ S.rollback_entry = Some(e) }

\* C28: any two snapshot sets whose (name, timestamp) pairs differ have
\* different uuids, so a boot record keyed to one set's uuid is never
\* attached to a different set: every record attached to a set is the one
\* built for that set.
C28_UuidsDistinguishSets ==
    /\ \A S \in held, T \in held :
          (S.name /= T.name \/ S.timestamp /= T.timestamp) => S.uuid /= T.uuid
    /\ \A S \in held : \A e \in Attached(S) : e = BootRecord(e.kind, S)


====
